---- MODULE Spec2Model ----
(***************************************************************************)
(* CraftlyPost backend: the content-generation service (provider fallback  *)
(* chain, response normalisation, post-processing) and the content routes  *)
(* that drive it.                                                          *)
(*                                                                         *)
(* JavaScript strings are modelled as sequences of one-character strings,  *)
(* so that startsWith / substring / split act on characters.  A parsed     *)
(* JSON object is a record with a field "keys" (the properties present)    *)
(* and "isNull" (the JSON value null).                                     *)
(***************************************************************************)
EXTENDS Integers, Sequences, FiniteSets, TLC

VARIABLES
    settings,         \* config/index.js Settings: which credentials are set
    openaiService,    \* the OpenAIService singleton (module variable), or NoService
    supabaseClient,   \* SupabaseService.client is non-null
    content_history,  \* rows inserted in table content_history
    ugc_ads,          \* rows inserted in table ugc_ads
    user_credits,     \* row of table user_credits of the user: balance per credit type
    reqs,             \* per HTTP request: the handler's position and locals
    calc              \* a function of the service applied on its own: input and value

vars == <<settings, openaiService, supabaseClient, content_history, ugc_ads, user_credits,
          reqs, calc>>

\* The HTTP requests in flight during one run.
Reqs == {"r1"}

Providers == <<"openai", "gemini", "groq">>

NoService == [constructed |-> FALSE, openaiClient |-> FALSE,
              geminiClient |-> FALSE, groqClient |-> FALSE]

------------------------------------------------------------------------------
(* Strings *)

Whitespace == {" ", "\n", "\t"}

\* The backquote character (written BQ: the lexer reserves the character itself)
BQ == "BQ"

Fence == <<BQ, BQ, BQ>>
FenceJson == <<BQ, BQ, BQ, "j", "s", "o", "n">>

\* String.prototype.startsWith
StartsWith(s, p) == Len(s) >= Len(p) /\ SubSeq(s, 1, Len(p)) = p

\* String.prototype.endsWith
EndsWith(s, p) == Len(s) >= Len(p) /\ SubSeq(s, Len(s) - Len(p) + 1, Len(s)) = p

\* s.substring(n): the characters from index n (0-based) on
SubstringFrom(s, n) == SubSeq(s, n + 1, Len(s))

\* s.substring(0, n)
SubstringTo(s, n) == SubSeq(s, 1, n)

RECURSIVE TrimStart(_)
TrimStart(s) == IF s # <<>> /\ Head(s) \in Whitespace THEN TrimStart(Tail(s)) ELSE s

RECURSIVE TrimEnd(_)
TrimEnd(s) ==
    IF s # <<>> /\ s[Len(s)] \in Whitespace THEN TrimEnd(SubSeq(s, 1, Len(s) - 1)) ELSE s

\* String.prototype.trim
Trim(s) == TrimEnd(TrimStart(s))

\* s.split(SPACE).length: one more than the number of space characters
SplitLength(s) == 1 + Cardinality({i \in DOMAIN s : s[i] = " "})

Max(a, b) == IF a >= b THEN a ELSE b

------------------------------------------------------------------------------
(* JSON documents the providers may return *)

Fields == {"caption", "hashtags", "cta", "imagePrompt", "hook", "script"}

DocA == [isNull |-> FALSE, keys |-> Fields,
         caption |-> <<"H", "i", " ", "u">>, hashtags |-> <<"#a", "#b">>,
         cta |-> <<"G", "o">>, imagePrompt |-> <<"p", "A">>,
         hook |-> <<"h", "A">>, script |-> <<"s", " ", "A">>]

DocB == [isNull |-> FALSE, keys |-> Fields,
         caption |-> <<"Y", "o">>, hashtags |-> <<"#c">>,
         cta |-> <<"B", "u", "y">>, imagePrompt |-> <<"p", "B">>,
         hook |-> <<"h", "B">>, script |-> <<"s", "B">>]

\* {}: an object with no property
DocEmpty == [isNull |-> FALSE, keys |-> {},
             caption |-> <<>>, hashtags |-> <<>>, cta |-> <<>>,
             imagePrompt |-> <<>>, hook |-> <<>>, script |-> <<>>]

\* null
DocNull == [DocEmpty EXCEPT !.isNull = TRUE]

TextA == <<"{", "A", "}">>
TextB == <<"{", "B", "}">>
TextEmpty == <<"{", "}">>
TextNull == <<"n", "u", "l", "l">>
TextGarbage == <<"{", "A">>

SyntaxError == "SyntaxError"
TypeError == "TypeError"

\* JSON.parse: surrounding whitespace is allowed by the grammar; anything that
\* is not a document throws SyntaxError.
JSONParse(text) ==
    LET t == Trim(text) IN
    CASE t = TextA -> [ok |-> TRUE, value |-> DocA, message |-> ""]
      [] t = TextB -> [ok |-> TRUE, value |-> DocB, message |-> ""]
      [] t = TextEmpty -> [ok |-> TRUE, value |-> DocEmpty, message |-> ""]
      [] t = TextNull -> [ok |-> TRUE, value |-> DocNull, message |-> ""]
      [] OTHER -> [ok |-> FALSE, value |-> DocNull, message |-> SyntaxError]

\* a cleaning that removes the three backquotes and leaves the tag
_cleanJsonResponseKeepTag(text) ==
    LET c2 == IF StartsWith(text, Fence) THEN SubstringFrom(text, 3) ELSE text
        c3 == IF EndsWith(c2, Fence) THEN SubstringTo(c2, Len(c2) - 3) ELSE c2
    IN JSONParse(Trim(c3))

\* OpenAIService._cleanJsonResponse
_cleanJsonResponse(text) ==
    LET c1 == IF StartsWith(text, FenceJson) THEN SubstringFrom(text, 7) ELSE text
        c2 == IF StartsWith(c1, Fence) THEN SubstringFrom(c1, 3) ELSE c1
        c3 == IF EndsWith(c2, Fence) THEN SubstringTo(c2, Len(c2) - 3) ELSE c2
    IN JSONParse(Trim(c3))

------------------------------------------------------------------------------
(* What a provider API call yields: a thrown error (network, 5xx, rate     *)
(* limit, safety filter) or the raw text of the completion.                *)

Causes == {"timeout", "rate_limit"}

NL == <<"\n">>

RawTexts ==
    { TextA, TextB, TextEmpty, TextNull, TextGarbage,
      FenceJson \o NL \o TextA \o NL \o Fence,
      Fence \o NL \o TextB \o NL \o Fence }

ProviderResponses ==
    [type : {"error"}, message : Causes, content : {<<>>}]
      \cup [type : {"text"}, message : {""}, content : RawTexts]

Thrown(message) == [ok |-> FALSE, value |-> DocNull, message |-> message]

\* OpenAIService._generateWithOpenAI: JSON.parse of the message content
_generateWithOpenAI(resp) ==
    IF resp.type = "error" THEN Thrown(resp.message) ELSE JSONParse(resp.content)

\* OpenAIService._generateWithGemini: text().trim(), then _cleanJsonResponse
_generateWithGemini(resp) ==
    IF resp.type = "error" THEN Thrown(resp.message)
    ELSE _cleanJsonResponse(Trim(resp.content))

\* OpenAIService._generateWithGroq: content.trim(), then _cleanJsonResponse
_generateWithGroq(resp) ==
    IF resp.type = "error" THEN Thrown(resp.message)
    ELSE _cleanJsonResponse(Trim(resp.content))

------------------------------------------------------------------------------
(* OpenAIService._generateContent: the fallback chain.  Its position is a  *)
(* record o: the provider block it is in (stage), the loop variable         *)
(* (attempt), whether the setTimeout of the retry is pending (waiting),     *)
(* the provider calls and timers so far (trace), the message of the last    *)
(* caught error, and how it ended.                                          *)

\* for (let attempt = 0; attempt < 2; attempt++)
GeminiAttempts == 2
GroqAttempts == 2
\* setTimeout(resolve, 2000)
RetryDelayMs == 2000

NoError == <<>>
NotConfiguredError ==
    <<"No AI provider available. Configure OpenAI, Google, or Groq API key.">>
AllFailedError(message) == <<"All AI providers failed. Last error: ", message>>

OrchStart ==
    [stage |-> "none", attempt |-> 0, waiting |-> FALSE, trace |-> <<>>,
     lastError |-> "", status |-> "running", returned |-> DocNull,
     thrown |-> NoError]

CallEvent(o, out) ==
    [ev |-> "call", provider |-> o.stage, attempt |-> o.attempt, ok |-> out.ok,
     value |-> out.value, ms |-> 0]

DelayEvent(o) ==
    [ev |-> "delay", provider |-> o.stage, attempt |-> o.attempt, ok |-> FALSE,
     value |-> DocNull, ms |-> RetryDelayMs]

\* line 188: no block returned or threw
ThrowNotConfigured(o) ==
    [o EXCEPT !.status = "thrown", !.thrown = NotConfiguredError, !.waiting = FALSE]

\* Mutant of ThrowAllFailed: an empty result is returned instead of throwing
ThrowAllFailedAsResult(o, message) ==
    [o EXCEPT !.status = "returned", !.returned = DocEmpty, !.waiting = FALSE]

\* line 182
ThrowAllFailed(o, message) ==
    [o EXCEPT !.status = "thrown", !.thrown = AllFailedError(message), !.waiting = FALSE]

\* Mutant of NeedsDelay: the timer is awaited before every attempt
NeedsDelayAlways(attempt) == attempt >= 0

\* Mutant of NeedsDelay: the retry is issued at once
NeedsDelayNever(attempt) == attempt > 1

\* if (attempt > 0) await new Promise(resolve => setTimeout(resolve, 2000))
NeedsDelay(attempt) == attempt > 0

\* Mutant of EnterGroq: the test of this.groqClient is missing
EnterGroqUnchecked(svc, o) ==
    [o EXCEPT !.stage = "groq", !.attempt = 0, !.waiting = NeedsDelay(0)]

\* lines 171-186: enter the Groq block, or fall out of the function
EnterGroq(svc, o) ==
    IF svc.groqClient
      THEN [o EXCEPT !.stage = "groq", !.attempt = 0, !.waiting = NeedsDelay(0)]
      ELSE ThrowNotConfigured(o)

\* Mutant of EnterGemini: Groq is tried before Gemini
EnterGeminiAfterGroq(svc, o) ==
    IF svc.groqClient /\ o.stage # "groq"
      THEN [o EXCEPT !.stage = "groq", !.attempt = 0, !.waiting = NeedsDelay(0)]
      ELSE IF svc.geminiClient
        THEN [o EXCEPT !.stage = "gemini", !.attempt = 0, !.waiting = NeedsDelay(0)]
        ELSE EnterGroq(svc, o)

\* lines 156-168: enter the Gemini block, or go on to the Groq block
EnterGemini(svc, o) ==
    IF svc.geminiClient
      THEN [o EXCEPT !.stage = "gemini", !.attempt = 0, !.waiting = NeedsDelay(0)]
      ELSE EnterGroq(svc, o)

\* lines 146-153: enter the OpenAI block, or go on to the Gemini block
EnterOpenAI(svc, o) ==
    IF svc.openaiClient
      THEN [o EXCEPT !.stage = "openai", !.attempt = 0, !.waiting = FALSE]
      ELSE EnterGemini(svc, o)

\* Mutant of ReturnResult: the value is kept but the function does not return
ReturnResultContinue(o, value) ==
    [o EXCEPT !.returned = value]

\* return await this._generateWith...(): the function ends with the value
ReturnResult(o, value) ==
    [o EXCEPT !.status = "returned", !.returned = value]

\* Mutant of OpenAIBlock: OpenAI is retried once like the other providers
OpenAIBlockRetry(svc, o, resp) ==
    LET out == _generateWithOpenAI(resp)
        o1 == [o EXCEPT !.trace = Append(@, CallEvent(o, out))]
    IN IF out.ok THEN ReturnResult(o1, out.value)
       ELSE IF o.attempt = 0
         THEN [o1 EXCEPT !.lastError = out.message, !.attempt = 1]
         ELSE EnterGemini(svc, [o1 EXCEPT !.lastError = out.message])

\* lines 147-152: one attempt, the error is logged and swallowed
OpenAIBlock(svc, o, resp) ==
    LET out == _generateWithOpenAI(resp)
        o1 == [o EXCEPT !.trace = Append(@, CallEvent(o, out))]
    IN IF out.ok THEN ReturnResult(o1, out.value)
       ELSE EnterGemini(svc, [o1 EXCEPT !.lastError = out.message])

\* Mutant of GeminiBlock: the loop variable is a field of the shared instance,
\* so a request sees the attempt number another request has reached
GeminiBlockSharedAttempt(svc, o, resp) ==
    LET out == _generateWithGemini(resp)
        o1 == [o EXCEPT !.trace = Append(@, CallEvent(o, out))]
        o2 == [o1 EXCEPT !.lastError = out.message]
        shared == IF \E x \in DOMAIN reqs :
                        reqs[x].orch.stage = "gemini" /\ reqs[x].orch.attempt = 1
                    THEN 1 ELSE o.attempt
    IN IF out.ok THEN ReturnResult(o1, out.value)
       ELSE IF shared + 1 < GeminiAttempts
         THEN [o2 EXCEPT !.attempt = shared + 1, !.waiting = NeedsDelay(shared + 1)]
         ELSE EnterGroq(svc, o2)

\* Mutant of GeminiBlock: output that does not parse is answered as an empty result
GeminiBlockBestEffort(svc, o, resp) ==
    LET out == _generateWithGemini(resp)
        o1 == [o EXCEPT !.trace = Append(@, CallEvent(o, out))]
        o2 == [o1 EXCEPT !.lastError = out.message]
    IN IF out.ok THEN ReturnResult(o1, out.value)
       ELSE IF out.message = SyntaxError THEN ReturnResult(o2, DocEmpty)
       ELSE IF o.attempt + 1 < GeminiAttempts
         THEN [o2 EXCEPT !.attempt = o.attempt + 1, !.waiting = NeedsDelay(o.attempt + 1)]
         ELSE EnterGroq(svc, o2)

\* lines 157-167: the body of one iteration of the Gemini loop, after its delay
GeminiBlock(svc, o, resp) ==
    LET out == _generateWithGemini(resp)
        o1 == [o EXCEPT !.trace = Append(@, CallEvent(o, out))]
        o2 == [o1 EXCEPT !.lastError = out.message]
    IN IF out.ok THEN ReturnResult(o1, out.value)
       ELSE IF o.attempt + 1 < GeminiAttempts
         THEN [o2 EXCEPT !.attempt = o.attempt + 1, !.waiting = NeedsDelay(o.attempt + 1)]
         ELSE EnterGroq(svc, o2)

\* Mutant of GroqBlock: the loop runs while attempt < 3
GroqBlockThirdAttempt(svc, o, resp) ==
    LET out == _generateWithGroq(resp)
        o1 == [o EXCEPT !.trace = Append(@, CallEvent(o, out))]
        o2 == [o1 EXCEPT !.lastError = out.message]
    IN IF out.ok THEN ReturnResult(o1, out.value)
       ELSE IF o.attempt = 2 THEN ThrowAllFailed(o2, out.message)
       ELSE [o2 EXCEPT !.attempt = o.attempt + 1, !.waiting = NeedsDelay(o.attempt + 1)]

\* lines 172-185: the body of one iteration of the Groq loop, after its delay
GroqBlock(svc, o, resp) ==
    LET out == _generateWithGroq(resp)
        o1 == [o EXCEPT !.trace = Append(@, CallEvent(o, out))]
        o2 == [o1 EXCEPT !.lastError = out.message]
    IN IF out.ok THEN ReturnResult(o1, out.value)
       ELSE IF o.attempt = 1 THEN ThrowAllFailed(o2, out.message)
       ELSE IF o.attempt + 1 < GroqAttempts
         THEN [o2 EXCEPT !.attempt = o.attempt + 1, !.waiting = NeedsDelay(o.attempt + 1)]
         ELSE ThrowNotConfigured(o2)

\* the timer of line 161 / 176 fires
DelayElapsed(o) ==
    [o EXCEPT !.waiting = FALSE, !.trace = Append(@, DelayEvent(o))]

------------------------------------------------------------------------------
(* Post-processing: generateTextPost / generateImagePost /                  *)
(* generateVideoScript after _generateContent has returned `result`.        *)

\* result.k || DEFAULT for a string or array property: a missing property
\* (and the empty string) gives the empty default
OrEmpty(result, k) == IF k \in result.keys THEN result[k] ELSE <<>>

\* Mutant of ReadTime: the floor alone
ReadTimeFloor(words) == <<words \div 3, " sec">>

\* `${Math.max(1, Math.floor(words / 3))} sec`
ReadTime(words) == <<Max(1, words \div 3), " sec">>

\* (result.hashtags?.length >= 5) ? 'High' : 'Medium'
EngagementScore(result) ==
    IF "hashtags" \in result.keys /\ Len(result.hashtags) >= 5 THEN "High" ELSE "Medium"

Stats(text, score) ==
    [characters |-> Len(text), words |-> SplitLength(text),
     readTime |-> ReadTime(SplitLength(text)), engagementScore |-> score]

Returned(value) == [ok |-> TRUE, value |-> value, message |-> ""]

\* A property read on null throws a TypeError
Raised(message) == [ok |-> FALSE, value |-> [success |-> FALSE], message |-> message]

\* request.includeHashtags ? (result.hashtags || []) : []
TextHashtags(request, result) ==
    IF request.includeHashtags THEN OrEmpty(result, "hashtags") ELSE <<>>

\* request.includeCTA ? (result.cta || '') : ''
TextCta(request, result) ==
    IF request.includeCTA THEN OrEmpty(result, "cta") ELSE <<>>

\* OpenAIService.generateTextPost, lines 224-240
generateTextPost(request, result) ==
    IF result.isNull THEN Raised(TypeError)
    ELSE LET caption == OrEmpty(result, "caption") IN
         Returned([success |-> TRUE, caption |-> caption,
                   hashtags |-> TextHashtags(request, result),
                   cta |-> TextCta(request, result),
                   stats |-> Stats(caption, EngagementScore(result)),
                   creditsUsed |-> 1, creditsRemaining |-> 149])

\* hashtags: result.hashtags || []  (line 269)
ImageHashtags(request, result) == OrEmpty(result, "hashtags")

\* cta: result.cta || ''  (line 270)
ImageCta(request, result) == OrEmpty(result, "cta")

\* OpenAIService.generateImagePost, lines 263-280
generateImagePost(request, result) ==
    IF result.isNull THEN Raised(TypeError)
    ELSE LET caption == OrEmpty(result, "caption") IN
         Returned([success |-> TRUE, caption |-> caption,
                   hashtags |-> ImageHashtags(request, result),
                   cta |-> ImageCta(request, result),
                   imagePrompt |-> OrEmpty(result, "imagePrompt"),
                   stats |-> Stats(caption, "High"),
                   creditsUsed |-> 2, creditsRemaining |-> 23])

\* OpenAIService.generateVideoScript, lines 304-321
generateVideoScript(request, result) ==
    IF result.isNull THEN Raised(TypeError)
    ELSE LET script == OrEmpty(result, "script") IN
         Returned([success |-> TRUE, hook |-> OrEmpty(result, "hook"),
                   script |-> script, cta |-> OrEmpty(result, "cta"),
                   hashtags |-> OrEmpty(result, "hashtags"),
                   stats |-> Stats(script, "High"),
                   creditsUsed |-> 3, creditsRemaining |-> 7])

\* the service method each generation route calls
ServiceMethod(request, result) ==
    CASE request.kind = "text" -> generateTextPost(request, result)
      [] request.kind = "image" -> generateImagePost(request, result)
      [] request.kind = "video" -> generateVideoScript(request, result)

------------------------------------------------------------------------------
(* GeminiService.generateUGCAdContent *)

UGCStats ==
    [estimatedReach |-> "5K-15K", engagementRate |-> "3.5-7%",
     recommendedBudget |-> "$50-200", bestTimeToPost |-> "Mon-Fri, 6-9 PM"]

\* lines 144-155: the object built from the request when the call or the parse failed
UGCFallback ==
    [keys |-> {"imagePrompt", "caption", "hashtags", "cta"},
     imagePrompt |-> <<"f", "P">>, caption |-> <<"f", "C">>,
     hashtags |-> <<"#Product", "#UGC", "#Viral", "#MustTry", "#ProductReview">>,
     cta |-> <<"f", "T">>, stats |-> UGCStats]

\* lines 112-128: the response text trimmed, the fence removed, JSON.parse
UGCParse(resp) ==
    IF resp.type = "error" THEN Thrown(resp.message)
    ELSE LET t0 == Trim(resp.content)
             t1 == IF StartsWith(t0, FenceJson) THEN SubstringFrom(t0, 7) ELSE t0
             t2 == IF StartsWith(t1, Fence) THEN SubstringFrom(t1, 3) ELSE t1
             t3 == IF EndsWith(t2, Fence) THEN SubstringTo(t2, Len(t2) - 3) ELSE t2
         IN JSONParse(Trim(t3))

\* lines 103-156: try { call, parse, add stats } catch { fallback }
generateUGCAdContent(resp) ==
    LET out == UGCParse(resp) IN
    IF out.ok /\ ~out.value.isNull
      THEN [keys |-> out.value.keys \cap {"imagePrompt", "caption", "hashtags", "cta"},
            imagePrompt |-> out.value.imagePrompt, caption |-> out.value.caption,
            hashtags |-> out.value.hashtags, cta |-> out.value.cta,
            stats |-> UGCStats]
      ELSE UGCFallback

------------------------------------------------------------------------------
(* The service singletons *)

\* OpenAIService constructor: a client exists when its key is set and its
\* construction did not throw (initOk)
OpenAIServiceConstructor(cfg, initOk) ==
    [constructed |-> TRUE,
     openaiClient |-> cfg.openaiApiKey /\ initOk.openai,
     geminiClient |-> cfg.googleApiKey /\ initOk.gemini,
     groqClient |-> cfg.groqApiKey /\ initOk.groq]

\* getOpenAIService: the instance is built on first use and then kept
getOpenAIService(current, cfg, initOk) ==
    IF current.constructed THEN current ELSE OpenAIServiceConstructor(cfg, initOk)

InitOutcomes == [openai : BOOLEAN, gemini : BOOLEAN, groq : BOOLEAN]

\* GeminiService.isConfigured of the instance getGeminiService builds per call
GeminiIsConfigured(cfg, initOk) == cfg.googleApiKey /\ initOk

GeminiNotConfiguredError ==
    <<"Gemini API is not configured. Please set GOOGLE_API_KEY in .env">>

------------------------------------------------------------------------------
(* HTTP requests and responses *)

Kinds == {"text", "image", "video", "ugc"}

Users == {"null", "u1"}

\* A request body: whether it satisfies the route schema, and the toggles the
\* schema keeps (TextPostRequest and ImagePostRequest only)
Bodies ==
    [kind : {"text", "image"}, valid : BOOLEAN,
     includeHashtags : BOOLEAN, includeCTA : BOOLEAN]
      \cup [kind : {"video", "ugc"}, valid : BOOLEAN,
            includeHashtags : {TRUE}, includeCTA : {TRUE}]

ZodErrorMessage == <<"ZodError">>

NoResponse == [status |-> 0, body |-> [success |-> FALSE]]

\* res.json(body)
JsonResponse(body) == [status |-> 200, body |-> body]

\* res.status(500).json({ success: false, error: error.message || ... })
ErrorResponse(message) ==
    [status |-> 500, body |-> [success |-> FALSE, error |-> message]]

IdleRequest ==
    [pc |-> "idle", body |-> [kind |-> "text", valid |-> FALSE,
                              includeHashtags |-> TRUE, includeCTA |-> TRUE],
     user |-> "null", orch |-> OrchStart, result |-> [success |-> FALSE],
     response |-> NoResponse]

\* the row saveContentToDb inserts (lines 24-34; the video route passes the
\* script as caption)
ContentRow(q) ==
    [user_id |-> q.user, content_type |-> q.body.kind,
     caption |-> IF q.body.kind = "video" THEN q.result.script ELSE q.result.caption,
     hashtags |-> q.result.hashtags, cta |-> q.result.cta]

\* The route handler after _generateContent moved to o: still in the chain,
\* or the service method returned (then saveContentToDb is next), or the
\* catch block of the route answers.
AfterGenerate(q, o) ==
    CASE o.status = "running" -> [q EXCEPT !.orch = o]
      [] o.status = "thrown" ->
            [q EXCEPT !.orch = o, !.pc = "done", !.response = ErrorResponse(o.thrown)]
      [] o.status = "returned" ->
            LET out == ServiceMethod(q.body, o.returned) IN
            IF out.ok
              THEN [q EXCEPT !.orch = o, !.pc = "save", !.result = out.value]
              ELSE [q EXCEPT !.orch = o, !.pc = "done",
                             !.response = ErrorResponse(<<out.message>>)]

\* getUserCredits: the balances a new user is given (lines 44-49 of supabaseService.js)
DefaultCredits == [text |-> 150, image |-> 25, video |-> 10]

\* no function is being applied on its own
NoCalc == [pc |-> "none"]

------------------------------------------------------------------------------
(* State machine *)

\* Mutant of HoldsThread: the delay is a synchronous sleep
HoldsThreadWhileWaiting(q) == q.pc = "generate" /\ q.orch.waiting

\* The handlers are async functions on one event loop: a handler suspended at
\* an await (a provider call, the setTimeout promise of line 161 / 176, an
\* insert) has returned to the loop and holds nothing
HoldsThread(q) == FALSE

\* the event loop can run the next step of request r
Runnable(r) == \A x \in DOMAIN reqs \ {r} : ~HoldsThread(reqs[x])

Init ==
    /\ settings \in [openaiApiKey : BOOLEAN, googleApiKey : BOOLEAN, groqApiKey : BOOLEAN]
    /\ openaiService = NoService
    /\ supabaseClient \in BOOLEAN
    /\ content_history = <<>>
    /\ ugc_ads = <<>>
    /\ user_credits = DefaultCredits
    /\ reqs = [r \in Reqs |-> IdleRequest]
    /\ calc = NoCalc

\* A request arrives; authenticateUser has set req.user
Receive(r) ==
    /\ Runnable(r)
    /\ reqs[r].pc = "idle"
    /\ \E b \in Bodies, u \in Users :
         reqs' = [reqs EXCEPT ![r] = [@ EXCEPT !.pc = "validate", !.body = b, !.user = u]]
    /\ UNCHANGED <<calc, user_credits, settings, openaiService, supabaseClient, content_history, ugc_ads>>

\* Schema.parseAsync(req.body) rejects: the catch block of the route answers
ValidateReject(r) ==
    /\ Runnable(r)
    /\ reqs[r].pc = "validate"
    /\ ~reqs[r].body.valid
    /\ reqs' = [reqs EXCEPT ![r] = [@ EXCEPT !.pc = "done",
                                            !.response = ErrorResponse(ZodErrorMessage)]]
    /\ UNCHANGED <<calc, user_credits, settings, openaiService, supabaseClient, content_history, ugc_ads>>

\* /generate/text, /image, /video: the body is valid, getOpenAIService(), and
\* the service method runs up to the first await of _generateContent
StartGeneration(r) ==
    /\ Runnable(r)
    /\ reqs[r].pc = "validate"
    /\ reqs[r].body.valid
    /\ reqs[r].body.kind \in {"text", "image", "video"}
    /\ \E initOk \in InitOutcomes :
         LET svc == getOpenAIService(openaiService, settings, initOk)
             o == EnterOpenAI(svc, OrchStart)
         IN /\ openaiService' = svc
            /\ reqs' = [reqs EXCEPT ![r] = AfterGenerate([@ EXCEPT !.pc = "generate"], o)]
    /\ UNCHANGED <<calc, user_credits, settings, supabaseClient, content_history, ugc_ads>>

\* the awaited OpenAI call settles
GenerateWithOpenAI(r) ==
    /\ Runnable(r)
    /\ reqs[r].pc = "generate"
    /\ reqs[r].orch.stage = "openai"
    /\ \E resp \in ProviderResponses :
         reqs' = [reqs EXCEPT ![r] = AfterGenerate(@, OpenAIBlock(openaiService, @.orch, resp))]
    /\ UNCHANGED <<calc, user_credits, settings, openaiService, supabaseClient, content_history, ugc_ads>>

\* the awaited Gemini call settles
GenerateWithGemini(r) ==
    /\ Runnable(r)
    /\ reqs[r].pc = "generate"
    /\ reqs[r].orch.stage = "gemini"
    /\ ~reqs[r].orch.waiting
    /\ \E resp \in ProviderResponses :
         reqs' = [reqs EXCEPT ![r] = AfterGenerate(@, GeminiBlock(openaiService, @.orch, resp))]
    /\ UNCHANGED <<calc, user_credits, settings, openaiService, supabaseClient, content_history, ugc_ads>>

\* the awaited Groq call settles
GenerateWithGroq(r) ==
    /\ Runnable(r)
    /\ reqs[r].pc = "generate"
    /\ reqs[r].orch.stage = "groq"
    /\ ~reqs[r].orch.waiting
    /\ \E resp \in ProviderResponses :
         reqs' = [reqs EXCEPT ![r] = AfterGenerate(@, GroqBlock(openaiService, @.orch, resp))]
    /\ UNCHANGED <<calc, user_credits, settings, openaiService, supabaseClient, content_history, ugc_ads>>

\* the 2-second timer before a second attempt fires
RetryDelay(r) ==
    /\ Runnable(r)
    /\ reqs[r].pc = "generate"
    /\ reqs[r].orch.waiting
    /\ reqs' = [reqs EXCEPT ![r] = [@ EXCEPT !.orch = DelayElapsed(@)]]
    /\ UNCHANGED <<calc, user_credits, settings, openaiService, supabaseClient, content_history, ugc_ads>>

\* Mutant of SaveAndRespond: the error of the insert is not caught and the
\* catch block of the route answers
SaveAndRespondInsertThrows(r) ==
    /\ Runnable(r)
    /\ reqs[r].pc = "save"
    /\ \E inserted \in BOOLEAN :
         /\ content_history' =
               IF supabaseClient /\ inserted
                 THEN Append(content_history, ContentRow(reqs[r]))
                 ELSE content_history
         /\ reqs' = [reqs EXCEPT ![r] =
               [@ EXCEPT !.pc = "done",
                         !.response = IF supabaseClient /\ ~inserted
                                        THEN ErrorResponse(<<"insert failed">>)
                                        ELSE JsonResponse(reqs[r].result)]]
    /\ UNCHANGED <<calc, user_credits, settings, openaiService, supabaseClient, ugc_ads>>

\* Mutant of SaveAndRespond: the route also takes one credit of the kind
SaveAndRespondDeducting(r) ==
    /\ Runnable(r)
    /\ reqs[r].pc = "save"
    /\ user_credits' = [user_credits EXCEPT ![reqs[r].body.kind] = @ - 1]
    /\ reqs' = [reqs EXCEPT ![r] = [@ EXCEPT !.pc = "done",
                                            !.response = JsonResponse(reqs[r].result)]]
    /\ UNCHANGED <<calc, settings, openaiService, supabaseClient, content_history, ugc_ads>>

\* saveContentToDb (an insert that may fail, the failure is logged), then
\* res.json(result)
SaveAndRespond(r) ==
    /\ Runnable(r)
    /\ reqs[r].pc = "save"
    /\ \E inserted \in BOOLEAN :
         content_history' =
            IF supabaseClient /\ inserted
              THEN Append(content_history, ContentRow(reqs[r]))
              ELSE content_history
    /\ reqs' = [reqs EXCEPT ![r] = [@ EXCEPT !.pc = "done",
                                            !.response = JsonResponse(reqs[r].result)]]
    /\ UNCHANGED <<calc, user_credits, settings, openaiService, supabaseClient, ugc_ads>>

\* /generate/ugc-ad: the body is valid, getGeminiService() builds an instance,
\* generateUGCAdContent throws when it is not configured
StartUGC(r) ==
    /\ Runnable(r)
    /\ reqs[r].pc = "validate"
    /\ reqs[r].body.valid
    /\ reqs[r].body.kind = "ugc"
    /\ \E initOk \in BOOLEAN :
         reqs' = [reqs EXCEPT ![r] =
                    IF GeminiIsConfigured(settings, initOk)
                      THEN [@ EXCEPT !.pc = "ugc_generate",
                                     !.orch = [OrchStart EXCEPT !.stage = "gemini"]]
                      ELSE [@ EXCEPT !.pc = "done",
                                     !.response = ErrorResponse(GeminiNotConfiguredError)]]
    /\ UNCHANGED <<calc, user_credits, settings, openaiService, supabaseClient, content_history, ugc_ads>>

\* the route after generateUGCAdContent returned `res`: line 169 reads
\* result.imagePrompt.substring, a TypeError when the property is missing
AfterUGCContent(q, o, res) ==
    IF "imagePrompt" \in res.keys
      THEN [q EXCEPT !.orch = o, !.pc = "ugc_image", !.result = res]
      ELSE [q EXCEPT !.orch = o, !.pc = "done", !.response = ErrorResponse(<<TypeError>>)]

\* the awaited model.generateContent of generateUGCAdContent settles
GenerateUGCAdContent(r) ==
    /\ Runnable(r)
    /\ reqs[r].pc = "ugc_generate"
    /\ \E resp \in ProviderResponses :
         LET o == [reqs[r].orch EXCEPT
                      !.trace = Append(@, CallEvent(reqs[r].orch, UGCParse(resp))),
                      !.lastError = UGCParse(resp).message]
         IN reqs' = [reqs EXCEPT ![r] = AfterUGCContent(@, o, generateUGCAdContent(resp))]
    /\ UNCHANGED <<calc, user_credits, settings, openaiService, supabaseClient, content_history, ugc_ads>>

\* lines 177-206: the image URL given the outcome of generateImage and of the upload
GeneratedImageUrl(imageOk, configured, uploadOk) ==
    IF ~imageOk THEN "null"
    ELSE IF configured /\ uploadOk THEN "publicUrl" ELSE "base64"

\* lines 242-252
UGCResponseBody(res, url) ==
    [success |-> TRUE, keys |-> res.keys, imagePrompt |-> res.imagePrompt,
     caption |-> res.caption, hashtags |-> res.hashtags, cta |-> res.cta,
     stats |-> res.stats, creditsUsed |-> 2, creditsRemaining |-> 1000,
     generatedImageUrl |-> url]

\* lines 214-234
UGCRow(q, url) ==
    [user_id |-> q.user, image_prompt |-> q.result.imagePrompt,
     caption |-> q.result.caption, hashtags |-> q.result.hashtags,
     cta |-> q.result.cta, product_image_url |-> url, credits_used |-> 2]

\* generateImage (it reports a failure, it does not throw), the upload to
\* storage, the insert into ugc_ads, res.json
GenerateUGCImage(r) ==
    /\ Runnable(r)
    /\ reqs[r].pc = "ugc_image"
    /\ \E imageOk \in BOOLEAN, uploadOk \in BOOLEAN, inserted \in BOOLEAN :
         LET url == GeneratedImageUrl(imageOk, supabaseClient, uploadOk) IN
         /\ ugc_ads' = IF supabaseClient /\ inserted
                         THEN Append(ugc_ads, UGCRow(reqs[r], url))
                         ELSE ugc_ads
         /\ reqs' = [reqs EXCEPT ![r] =
                       [@ EXCEPT !.pc = "done",
                                 !.response = JsonResponse(UGCResponseBody(reqs[r].result, url))]]
    /\ UNCHANGED <<calc, user_credits, settings, openaiService, supabaseClient, content_history>>

Next ==
    \E r \in Reqs :
        \/ Receive(r)
        \/ ValidateReject(r)
        \/ StartGeneration(r)
        \/ GenerateWithOpenAI(r)
        \/ GenerateWithGemini(r)
        \/ GenerateWithGroq(r)
        \/ RetryDelay(r)
        \/ SaveAndRespond(r)
        \/ StartUGC(r)
        \/ GenerateUGCAdContent(r)
        \/ GenerateUGCImage(r)

Spec == Init /\ [][Next]_vars

TypeOK ==
    /\ openaiService.constructed \in BOOLEAN
    /\ \A r \in Reqs : reqs[r].pc \in
         {"idle", "validate", "generate", "save", "ugc_generate", "ugc_image", "done"}

------------------------------------------------------------------------------
(* Vocabulary of the properties *)

OrchKinds == {"text", "image", "video"}

\* the request reached _generateContent
Orchestrated(q) ==
    q.body.kind \in OrchKinds /\ q.body.valid /\ q.pc \in {"generate", "save", "done"}

HasClient(svc, p) ==
    CASE p = "openai" -> svc.openaiClient
      [] p = "gemini" -> svc.geminiClient
      [] p = "groq" -> svc.groqClient

HasCredential(cfg, p) ==
    CASE p = "openai" -> cfg.openaiApiKey
      [] p = "gemini" -> cfg.googleApiKey
      [] p = "groq" -> cfg.groqApiKey

\* the configured adapters in priority order
AdapterList(svc) == SelectSeq(Providers, LAMBDA p : HasClient(svc, p))

CallsOf(o) == {i \in DOMAIN o.trace : o.trace[i].ev = "call"}
CallsTo(o, p) == {i \in CallsOf(o) : o.trace[i].provider = p}
FailedCallsTo(o, p) == {i \in CallsTo(o, p) : ~o.trace[i].ok}
DelaysOf(o) == {i \in DOMAIN o.trace : o.trace[i].ev = "delay"}
Succeeded(o) == {i \in CallsOf(o) : o.trace[i].ok}

\* the attempts the code gives a provider
AttemptsGiven(p) ==
    CASE p = "openai" -> 1
      [] p = "gemini" -> GeminiAttempts
      [] p = "groq" -> GroqAttempts

------------------------------------------------------------------------------
(* C1: in _generateContent, once an attempt of any adapter succeeds the     *)
(* function returns the value of that attempt and no further attempt or     *)
(* delay follows; a success of the first adapter leaves every other         *)
(* adapter uninvoked.                                                       *)
C1_ReturnOnFirstSuccess ==
    \A r \in Reqs :
        LET q == reqs[r]
            o == q.orch
        IN Orchestrated(q) =>
             /\ \A i \in Succeeded(o) :
                   /\ i = Len(o.trace)
                   /\ o.status = "returned"
                   /\ o.returned = o.trace[i].value
             /\ o.status = "returned" => Succeeded(o) # {}
             /\ (o.trace # <<>> /\ o.trace[1].ok) => Len(o.trace) = 1

\* the first adapter succeeded while lower-priority adapters were configured,
\* and the request has been answered
C1_Witness ==
    \E r \in Reqs :
        /\ Orchestrated(reqs[r])
        /\ reqs[r].pc = "done"
        /\ openaiService.openaiClient /\ openaiService.geminiClient
        /\ openaiService.groqClient
        /\ Len(reqs[r].orch.trace) = 1
        /\ reqs[r].orch.trace[1].ok
        /\ reqs[r].response.status = 200

------------------------------------------------------------------------------
(* C2 as stated: the first adapter of the configured list, whichever        *)
(* provider it is, is attempted exactly once per request and never retried. *)
C2_FirstAdapterSingleAttempt ==
    \A r \in Reqs :
        LET q == reqs[r]
            o == q.orch
            list == AdapterList(openaiService)
        IN (Orchestrated(q) /\ list # <<>>) =>
             /\ Cardinality(CallsTo(o, list[1])) <= 1
             /\ \A i \in CallsOf(o) : o.trace[i].attempt > 0 => o.trace[i].provider # list[1]
             /\ o.status # "running" => Cardinality(CallsTo(o, list[1])) = 1

(* C2 amended: the single attempt belongs to OpenAI, not to the first       *)
(* position.  When OpenAI is the first adapter it is attempted exactly once *)
(* per request and never retried, and retries happen only on the adapters   *)
(* after it; Gemini and Groq are retried whatever their position.           *)
C2_OpenAISingleAttempt ==
    \A r \in Reqs :
        LET q == reqs[r]
            o == q.orch
        IN Orchestrated(q) =>
             /\ Cardinality(CallsTo(o, "openai")) <= 1
             /\ \A i \in CallsOf(o) :
                   o.trace[i].attempt > 0 => o.trace[i].provider \in {"gemini", "groq"}
             /\ (openaiService.openaiClient /\ o.status # "running") =>
                   Cardinality(CallsTo(o, "openai")) = 1
             /\ (openaiService.openaiClient /\ o.trace # <<>>) =>
                   o.trace[1].provider = "openai"
             /\ \A p \in {"gemini", "groq"} : Cardinality(CallsTo(o, p)) <= 2

\* OpenAI was first, failed its one attempt, and a later adapter was retried
C2_Witness ==
    \E r \in Reqs :
        LET o == reqs[r].orch IN
        /\ Orchestrated(reqs[r])
        /\ openaiService.openaiClient
        /\ Cardinality(FailedCallsTo(o, "openai")) = 1
        /\ \E i \in CallsOf(o) : o.trace[i].attempt = 1
        /\ o.status # "running"

------------------------------------------------------------------------------
(* C3: when every configured adapter has failed all of its attempts,        *)
(* _generateContent ends with a thrown error and the route answers with an  *)
(* error; a result is returned, and a success response sent, only after an  *)
(* attempt that succeeded.                                                  *)
C3_ExhaustionThrows ==
    \A r \in Reqs :
        LET q == reqs[r]
            o == q.orch
        IN Orchestrated(q) =>
             /\ (o.status # "running" /\ Succeeded(o) = {}) =>
                   /\ o.status = "thrown"
                   /\ o.thrown # NoError
                   /\ q.pc = "done"
                   /\ q.response.status = 500
                   /\ ~q.response.body.success
             /\ (q.pc = "save" \/ q.response.status = 200) => Succeeded(o) # {}

\* all three adapters were configured and all five attempts failed
C3_Witness ==
    \E r \in Reqs :
        LET o == reqs[r].orch IN
        /\ Orchestrated(reqs[r])
        /\ Cardinality(FailedCallsTo(o, "openai")) = 1
        /\ Cardinality(FailedCallsTo(o, "gemini")) = 2
        /\ Cardinality(FailedCallsTo(o, "groq")) = 2
        /\ o.status = "thrown"
        /\ reqs[r].response.status = 500

------------------------------------------------------------------------------
(* C4: for every non-empty set of configured providers, when all attempts   *)
(* of all configured adapters fail the error thrown is the                  *)
(* all-providers-exhausted error naming the cause of the last failed        *)
(* attempt; the not-configured error is thrown only with zero adapters.     *)
C4_ExhaustionErrorNamesLastCause ==
    \A r \in Reqs :
        LET q == reqs[r]
            o == q.orch
        IN (Orchestrated(q) /\ o.status = "thrown") =>
             /\ AdapterList(openaiService) # <<>> => o.thrown = AllFailedError(o.lastError)
             /\ o.thrown = NotConfiguredError => AdapterList(openaiService) = <<>>

------------------------------------------------------------------------------
(* C5: with no OpenAI, Google or Groq credential, a generation request      *)
(* that passed validation is answered at once with the not-configured       *)
(* error: it never waits on a provider call or a retry timer, and its       *)
(* trace of calls and delays is empty.  (The UGC route raises the           *)
(* not-configured error of the Gemini service.)                             *)
C5_NotConfiguredFailsImmediately ==
    \A r \in Reqs :
        LET q == reqs[r] IN
        (~settings.openaiApiKey /\ ~settings.googleApiKey /\ ~settings.groqApiKey
           /\ q.body.valid /\ q.pc \notin {"idle", "validate"}) =>
             /\ q.pc = "done"
             /\ q.orch.trace = <<>>
             /\ q.response =
                  IF q.body.kind = "ugc" THEN ErrorResponse(GeminiNotConfiguredError)
                  ELSE ErrorResponse(NotConfiguredError)

\* a valid text, image or video request was answered with no credential set
C5_Witness ==
    \E r \in Reqs :
        /\ ~settings.openaiApiKey /\ ~settings.googleApiKey /\ ~settings.groqApiKey
        /\ reqs[r].body.valid
        /\ reqs[r].body.kind \in OrchKinds
        /\ reqs[r].pc = "done"
        /\ reqs[r].response = ErrorResponse(NotConfiguredError)

------------------------------------------------------------------------------
\* The case of C6: the first adapter of the list failed all of its attempts,
\* the second failed its first attempt and succeeded on its second
SecondaryRecovers(o, list) ==
    /\ Len(list) >= 2
    /\ o.status = "returned"
    /\ CallsTo(o, list[1]) # {}
    /\ CallsTo(o, list[1]) = FailedCallsTo(o, list[1])
    /\ \E i, j \in CallsTo(o, list[2]) :
          /\ o.trace[i].attempt = 0 /\ ~o.trace[i].ok
          /\ o.trace[j].attempt = 1 /\ o.trace[j].ok

\* what C6 promises in that case
SecondaryRecoveryOutcome(o, list) ==
    /\ \E i, j \in CallsTo(o, list[2]) :
          /\ o.trace[i].attempt = 0 /\ ~o.trace[i].ok
          /\ o.trace[j].attempt = 1 /\ o.trace[j].ok
          /\ o.returned = o.trace[j].value
          /\ DelaysOf(o) = {i + 1}
          /\ j = i + 2
          /\ o.trace[i + 1].ms = 2000
    /\ Len(list) >= 3 => CallsTo(o, list[3]) = {}

(* C6 as stated: whenever the primary adapter fails and the secondary       *)
(* adapter fails once and then succeeds, the result is the one of the       *)
(* second attempt of the secondary, exactly one 2-second delay occurred,    *)
(* between the two attempts of the secondary, and the tertiary adapter was  *)
(* not invoked.                                                             *)
C6_SecondaryRecoveryOneDelay ==
    \A r \in Reqs :
        LET q == reqs[r]
            list == AdapterList(openaiService)
        IN (Orchestrated(q) /\ SecondaryRecovers(q.orch, list)) =>
              SecondaryRecoveryOutcome(q.orch, list)

(* C6 amended: the same, when the primary adapter is OpenAI.  (With OpenAI  *)
(* not configured the primary is Gemini, which is itself retried after a    *)
(* delay, so two delays occur.)                                             *)
C6_SecondaryRecoveryAfterOpenAI ==
    \A r \in Reqs :
        LET q == reqs[r]
            list == AdapterList(openaiService)
        IN (Orchestrated(q) /\ openaiService.openaiClient
              /\ SecondaryRecovers(q.orch, list)) =>
              SecondaryRecoveryOutcome(q.orch, list)

\* all three adapters configured, OpenAI failed, Gemini failed then succeeded,
\* and the request was answered from that result
C6_Witness ==
    \E r \in Reqs :
        /\ Orchestrated(reqs[r])
        /\ Len(AdapterList(openaiService)) = 3
        /\ SecondaryRecovers(reqs[r].orch, AdapterList(openaiService))
        /\ reqs[r].pc = "done"
        /\ reqs[r].response.status = 200

------------------------------------------------------------------------------
(* C7: every adapter after the first of the list is attempted at most       *)
(* twice; a second attempt directly follows one 2-second delay, which       *)
(* directly follows the failed first attempt of the same adapter; no delay  *)
(* precedes a first attempt, and none follows the last failed attempt of    *)
(* an adapter.                                                              *)
C7_RetryDelayDiscipline ==
    \A r \in Reqs :
        LET q == reqs[r]
            o == q.orch
            t == o.trace
            list == AdapterList(openaiService)
        IN Orchestrated(q) =>
             /\ \A k \in 2..Len(list) : Cardinality(CallsTo(o, list[k])) <= 2
             /\ \A i \in CallsOf(o) :
                   /\ t[i].attempt \in {0, 1}
                   /\ t[i].attempt = 1 =>
                        /\ i >= 3
                        /\ t[i - 1].ev = "delay" /\ t[i - 1].ms = 2000
                        /\ t[i - 1].provider = t[i].provider
                        /\ t[i - 2].ev = "call" /\ ~t[i - 2].ok
                        /\ t[i - 2].provider = t[i].provider /\ t[i - 2].attempt = 0
                   /\ t[i].attempt = 0 => (i = 1 \/ t[i - 1].ev = "call")
             /\ \A j \in DelaysOf(o) :
                   /\ j >= 2
                   /\ t[j - 1].ev = "call" /\ ~t[j - 1].ok /\ t[j - 1].attempt = 0
                   /\ t[j - 1].provider = t[j].provider
                   /\ t[j].provider # "openai"
                   /\ j < Len(t) => (t[j + 1].ev = "call" /\ t[j + 1].attempt = 1)
             /\ o.waiting =>
                   (t # <<>> /\ t[Len(t)].ev = "call" /\ ~t[Len(t)].ok /\ t[Len(t)].attempt = 0)
             /\ (o.status = "running" /\ ~o.waiting /\ t # <<>> /\ t[Len(t)].ev = "call")
                   => t[Len(t)].provider # o.stage
             /\ (o.status # "running" /\ t # <<>>) => t[Len(t)].ev = "call"

\* Gemini and Groq both used their two attempts, each second attempt after a delay
C7_Witness ==
    \E r \in Reqs :
        LET o == reqs[r].orch IN
        /\ Orchestrated(reqs[r])
        /\ Cardinality(CallsTo(o, "gemini")) = 2
        /\ Cardinality(CallsTo(o, "groq")) = 2
        /\ Cardinality(DelaysOf(o)) = 2
        /\ o.status # "running"

------------------------------------------------------------------------------
Priority(p) == CHOOSE k \in DOMAIN Providers : Providers[k] = p

(* C8: only providers whose credential is set are ever called, calls follow *)
(* the order OpenAI, Gemini, Groq, and the first attempt of an adapter      *)
(* comes only after every configured adapter of higher priority has failed  *)
(* all of its attempts.  A missing credential raises no error: the request  *)
(* is served by the adapters that remain.                                   *)
C8_PriorityOrderAmongConfigured ==
    \A r \in Reqs :
        LET q == reqs[r]
            o == q.orch
            t == o.trace
        IN /\ \A i \in CallsOf(o) :
                 /\ HasCredential(settings, t[i].provider)
                 /\ q.body.kind \in OrchKinds => HasClient(openaiService, t[i].provider)
           /\ Orchestrated(q) =>
                /\ \A i, j \in CallsOf(o) :
                      i < j => Priority(t[i].provider) <= Priority(t[j].provider)
                /\ \A i \in CallsOf(o) : \A k \in DOMAIN Providers :
                      (k < Priority(t[i].provider) /\ HasClient(openaiService, Providers[k]))
                        => Cardinality({j \in FailedCallsTo(o, Providers[k]) : j < i})
                             = AttemptsGiven(Providers[k])

\* OpenAI has no credential; Gemini failed twice and Groq then answered
C8_Witness ==
    \E r \in Reqs :
        LET o == reqs[r].orch IN
        /\ Orchestrated(reqs[r])
        /\ ~settings.openaiApiKey
        /\ Cardinality(FailedCallsTo(o, "gemini")) = 2
        /\ \E i \in CallsTo(o, "groq") : o.trace[i].ok
        /\ reqs[r].response.status = 200

------------------------------------------------------------------------------
(* C9: no partial or fabricated response, for every content kind: a         *)
(* request all of whose provider attempts failed (call error or             *)
(* unparseable output) is answered with an error, and a success response    *)
(* comes only after an attempt that returned and parsed.                    *)
C9_NoFabricatedSuccess ==
    \A r \in Reqs :
        LET q == reqs[r]
            o == q.orch
        IN q.pc = "done" =>
             /\ (CallsOf(o) # {} /\ Succeeded(o) = {}) => ~q.response.body.success
             /\ q.response.status = 200 => Succeeded(o) # {}

------------------------------------------------------------------------------
(* C10: for text post and image post requests, includeHashtags = false      *)
(* gives an empty hashtag sequence in the response whatever the adapter     *)
(* returned, and includeHashtags = true gives the hashtag sequence of the   *)
(* adapter.                                                                 *)
C10_HashtagToggle ==
    \A r \in Reqs :
        LET q == reqs[r] IN
        (q.pc = "done" /\ q.body.kind \in {"text", "image"} /\ q.response.status = 200) =>
             /\ ~q.body.includeHashtags => q.response.body.hashtags = <<>>
             /\ (q.body.includeHashtags /\ "hashtags" \in q.orch.returned.keys) =>
                   q.response.body.hashtags = q.orch.returned.hashtags

------------------------------------------------------------------------------
(* C11: for text post and image post requests with includeCTA = false the   *)
(* cta of the response is the empty string whatever the adapter returned.   *)
C11_CtaToggle ==
    \A r \in Reqs :
        LET q == reqs[r] IN
        (q.pc = "done" /\ q.body.kind \in {"text", "image"} /\ q.response.status = 200
           /\ ~q.body.includeCTA) =>
             q.response.body.cta = <<>>

------------------------------------------------------------------------------
(* The adapters applied on their own to a raw completion                    *)

\* the server with no request in flight
ServerIdle ==
    /\ settings = [openaiApiKey |-> TRUE, googleApiKey |-> TRUE, groqApiKey |-> TRUE]
    /\ openaiService = NoService
    /\ supabaseClient = FALSE
    /\ content_history = <<>>
    /\ ugc_ads = <<>>
    /\ user_credits = DefaultCredits
    /\ reqs = [r \in Reqs |-> IdleRequest]

\* the texts a completion may carry inside or outside a fence
RawBodies == {TextA, TextB, TextEmpty, TextNull, TextGarbage}

\* how the model wrapped the text: not at all, in a fence with or without
\* the json tag, with or without line breaks, with blank lines around it
Wrappings ==
    {"bare", "json_fence", "plain_fence", "json_fence_tight", "plain_fence_tight",
     "json_fence_padded"}

Wrap(w, text) ==
    CASE w = "bare" -> text
      [] w = "json_fence" -> FenceJson \o NL \o text \o NL \o Fence
      [] w = "plain_fence" -> Fence \o NL \o text \o NL \o Fence
      [] w = "json_fence_tight" -> FenceJson \o text \o Fence
      [] w = "plain_fence_tight" -> Fence \o text \o Fence
      [] w = "json_fence_padded" -> NL \o FenceJson \o NL \o text \o NL \o Fence \o NL

\* a completion whose text is `content`
Completion(content) == [type |-> "text", message |-> "", content |-> content]

\* the adapter method of provider p
GenerateWith(p, resp) ==
    CASE p = "openai" -> _generateWithOpenAI(resp)
      [] p = "gemini" -> _generateWithGemini(resp)
      [] p = "groq" -> _generateWithGroq(resp)

InitParse ==
    /\ ServerIdle
    /\ calc \in [pc : {"raw"}, adapter : {"openai", "gemini", "groq"},
                 body : RawBodies, wrapping : Wrappings, out : {Thrown("")}]

\* the adapter parses the completion it received
Normalize ==
    /\ calc.pc = "raw"
    /\ calc' = [calc EXCEPT !.pc = "parsed",
                            !.out = GenerateWith(calc.adapter,
                                                 Completion(Wrap(calc.wrapping, calc.body)))]
    /\ UNCHANGED <<user_credits, settings, openaiService, supabaseClient, content_history,
                   ugc_ads, reqs>>

NextParse == Normalize

SpecParse == InitParse /\ [][NextParse]_vars

------------------------------------------------------------------------------
(* C12 as stated: for every adapter (OpenAI, Gemini, Groq) a raw response   *)
(* wrapped in a fence, with or without the json tag, parses to the same     *)
(* result as the bare text.                                                 *)
C12_FenceStrippedByEveryAdapter ==
    calc.pc = "parsed" =>
        calc.out = GenerateWith(calc.adapter, Completion(calc.body))

(* C12: for the Gemini and Groq adapters a fenced raw response, with or     *)
(* without the json tag, parses to the same result as the bare text, and a  *)
(* fenced JSON document parses to that document; the OpenAI adapter parses  *)
(* the content as it is, so a fenced response is a failed attempt.          *)
C12_FenceStrippedByGeminiAndGroq ==
    calc.pc = "parsed" =>
        /\ calc.adapter \in {"gemini", "groq"} =>
              /\ calc.out = GenerateWith(calc.adapter, Completion(calc.body))
              /\ calc.out = JSONParse(calc.body)
        /\ (calc.adapter = "openai" /\ calc.wrapping # "bare") =>
              /\ ~calc.out.ok
              /\ calc.out.message = SyntaxError
        /\ (calc.adapter = "openai" /\ calc.wrapping = "bare") =>
              calc.out = JSONParse(calc.body)

\* Gemini answered a document in a json-tagged fence and it was parsed
C12_Witness ==
    /\ calc.pc = "parsed"
    /\ calc.adapter = "gemini"
    /\ calc.wrapping = "json_fence"
    /\ calc.body = TextA
    /\ calc.out.ok
    /\ calc.out.value = DocA

------------------------------------------------------------------------------
------------------------------------------------------------------------------
(* C14: every error generateTextPost, generateImagePost or                  *)
(* generateVideoScript raises to the route is the not-configured error or   *)
(* the all-providers-failed error; no other error (such as one raised       *)
(* while post-processing the parsed result) reaches the caller.             *)
C14_OnlyConfigAndExhaustionSurface ==
    \A r \in Reqs :
        LET q == reqs[r] IN
        (Orchestrated(q) /\ q.pc = "done" /\ q.response.status = 500) =>
            \/ q.response.body.error = NotConfiguredError
            \/ \E c \in Causes \cup {SyntaxError} :
                  q.response.body.error = AllFailedError(c)

------------------------------------------------------------------------------
\* the fields of the parsed result each content kind reads
KindFields(kind) ==
    CASE kind = "text" -> {"caption", "hashtags", "cta"}
      [] kind = "image" -> {"caption", "hashtags", "cta", "imagePrompt"}
      [] kind = "video" -> {"hook", "script", "cta", "hashtags"}
      [] kind = "ugc" -> {"imagePrompt", "caption", "hashtags", "cta"}

(* C15: for every content kind, when the parsed result of the successful    *)
(* attempt is an object that lacks a field, the request still succeeds and  *)
(* the response carries the empty string or empty sequence for that field.  *)
C15_MissingFieldsDefault ==
    \A r \in Reqs :
        LET q == reqs[r]
            t == q.orch.trace
            n == Len(t)
        IN (q.pc = "done" /\ n > 0 /\ t[n].ev = "call" /\ t[n].ok /\ ~t[n].value.isNull) =>
              /\ q.response.status = 200
              /\ \A f \in KindFields(q.body.kind) \ t[n].value.keys :
                    /\ q.body.kind = "ugc" => f \in q.response.body.keys
                    /\ q.response.body[f] = <<>>

------------------------------------------------------------------------------
(* The service methods applied on their own to a parsed result              *)

\* the longest caption or script drawn
MaxTextLen == 5

\* the characters of a caption or script: a letter, a space, a line break, a tab
TextChars == {"a", " ", "\n", "\t"}

RECURSIVE TextsOfLen(_)
TextsOfLen(n) ==
    IF n = 0 THEN {<<>>}
    ELSE {Append(s, c) : s \in TextsOfLen(n - 1), c \in TextChars}

Texts == UNION {TextsOfLen(n) : n \in 0..MaxTextLen}

\* the number of hashtags the provider returned
HashtagCounts == {0, 4, 5}

\* the parsed result of the provider: the text is its caption and its
\* script, it has n hashtags (none: the property is missing)
ResultWith(text, n) ==
    [isNull |-> FALSE,
     keys |-> IF n = 0 THEN Fields \ {"hashtags"} ELSE Fields,
     caption |-> text, hashtags |-> [i \in 1..n |-> "#t"],
     cta |-> <<"G", "o">>, imagePrompt |-> <<"p">>, hook |-> <<"h">>, script |-> text]

\* the validated requests of the three routes
StatsRequests ==
    {b \in Bodies : b.valid /\ b.kind \in {"text", "image", "video"} /\ b.includeCTA}

InitStats ==
    /\ ServerIdle
    /\ calc \in [pc : {"result"}, request : StatsRequests, text : Texts,
                 nHashtags : HashtagCounts, out : {Raised("")}]

\* the service method builds its return value from the provider's result
PostProcess ==
    /\ calc.pc = "result"
    /\ calc' = [calc EXCEPT !.pc = "done",
                            !.out = ServiceMethod(calc.request,
                                                  ResultWith(calc.text, calc.nHashtags))]
    /\ UNCHANGED <<user_credits, settings, openaiService, supabaseClient, content_history,
                   ugc_ads, reqs>>

NextStats == PostProcess

SpecStats == InitStats /\ [][NextStats]_vars

------------------------------------------------------------------------------
(* C16: for text, image and video requests stats.engagementScore is "High"  *)
(* exactly when the provider returned at least 5 hashtags and "Medium"      *)
(* otherwise, whatever includeHashtags is.                                  *)
C16_EngagementScoreFromProviderHashtags ==
    (calc.pc = "done" /\ calc.out.ok) =>
        calc.out.value.stats.engagementScore =
            IF calc.nHashtags >= 5 THEN "High" ELSE "Medium"

------------------------------------------------------------------------------
\* the whitespace-delimited tokens of s: the characters that start a run of
\* characters other than whitespace
TokenCount(s) ==
    Cardinality({i \in DOMAIN s :
                    s[i] \notin Whitespace /\ (i = 1 \/ s[i - 1] \in Whitespace)})

\* the text the statistics of a request are computed from
PrimaryText(value, kind) == IF kind = "video" THEN value.script ELSE value.caption

(* C17: stats.words is the number of whitespace-delimited tokens of the     *)
(* caption (text and image posts) or script (video), for every text: empty, *)
(* with consecutive, leading or trailing spaces, with line breaks or tabs;  *)
(* stats.characters is the length of that text.                             *)
C17_WordsAreWhitespaceTokens ==
    (calc.pc = "done" /\ calc.out.ok) =>
        /\ PrimaryText(calc.out.value, calc.request.kind) = calc.text
        /\ calc.out.value.stats.characters = Len(calc.text)
        /\ calc.out.value.stats.words = TokenCount(calc.text)

------------------------------------------------------------------------------
(* C18: stats.readTime is "N sec" where N is max(1, floor(words / 3)) of    *)
(* the reported word count: N = 1 when words < 3, and otherwise the integer *)
(* with 3N <= words < 3N + 3; N is at least 1 for every text, the empty     *)
(* text included.                                                           *)
C18_ReadTime ==
    (calc.pc = "done" /\ calc.out.ok) =>
        LET st == calc.out.value.stats
            N == st.readTime[1]
        IN /\ Len(st.readTime) = 2
           /\ st.readTime[2] = " sec"
           /\ N \in Nat
           /\ N >= 1
           /\ st.words < 3 => N = 1
           /\ st.words >= 3 => (3 * N <= st.words /\ st.words < 3 * N + 3)
           /\ calc.text = <<>> => N = 1

\* a text of six words is read in two seconds
C18_Witness ==
    /\ calc.pc = "done"
    /\ calc.out.ok
    /\ calc.out.value.stats.words = 6
    /\ calc.out.value.stats.readTime = <<2, " sec">>

------------------------------------------------------------------------------
(* C19: when generation fails terminally, the error string of the HTTP      *)
(* response tells only that no provider is configured or that all           *)
(* providers failed: the message of the last provider error is not part of  *)
(* it.                                                                      *)
C19_CauseNotInResponse ==
    \A r \in Reqs :
        LET q == reqs[r]
            o == q.orch
        IN (Orchestrated(q) /\ q.pc = "done" /\ o.status = "thrown") =>
              /\ q.response.status = 500
              /\ \A i \in DOMAIN q.response.body.error :
                    /\ q.response.body.error[i] \notin Causes \cup {SyntaxError}
                    /\ o.lastError # "" => q.response.body.error[i] # o.lastError

------------------------------------------------------------------------------
(* Two generation requests in flight at once                                *)

ConcReqs == {"r1", "r2"}

\* the body both requests carry
ConcBody == [kind |-> "text", valid |-> TRUE, includeHashtags |-> TRUE, includeCTA |-> TRUE]

\* the inputs of the two-request runs: text requests of an anonymous user,
\* provider calls that time out or answer document A
ConcInputs ==
    \A r \in ConcReqs :
        LET q == reqs[r] IN
        /\ q.pc # "idle" => (q.body = ConcBody /\ q.user = "null")
        /\ q.orch.lastError \in {"", "timeout"}
        /\ \A i \in DOMAIN q.orch.trace : q.orch.trace[i].value \in {DocNull, DocA}
        /\ q.orch.returned \in {DocNull, DocA}

InitConc ==
    /\ settings \in [openaiApiKey : BOOLEAN, googleApiKey : BOOLEAN, groqApiKey : BOOLEAN]
    /\ openaiService = NoService
    /\ supabaseClient \in BOOLEAN
    /\ content_history = <<>>
    /\ ugc_ads = <<>>
    /\ user_credits = DefaultCredits
    /\ reqs = [r \in ConcReqs |-> IdleRequest]
    /\ calc = NoCalc

NextConc ==
    \E r \in ConcReqs :
        \/ Receive(r) /\ ConcInputs'
        \/ StartGeneration(r) /\ ConcInputs'
        \/ GenerateWithOpenAI(r) /\ ConcInputs'
        \/ GenerateWithGemini(r) /\ ConcInputs'
        \/ GenerateWithGroq(r) /\ ConcInputs'
        \/ RetryDelay(r) /\ ConcInputs'
        \/ SaveAndRespond(r) /\ ConcInputs'

SpecConc == InitConc /\ [][NextConc]_vars

------------------------------------------------------------------------------
\* request r is suspended in the 2-second delay before a second attempt
InRetryDelay(q) == q.pc = "generate" /\ q.orch.waiting

\* the awaited provider call of x settles (answer or error)
ProviderCallSettles(x) ==
    GenerateWithOpenAI(x) \/ GenerateWithGemini(x) \/ GenerateWithGroq(x)

\* any next step of the handler of x
HandlerStep(x) ==
    \/ Receive(x) \/ StartGeneration(x) \/ ProviderCallSettles(x)
    \/ RetryDelay(x) \/ SaveAndRespond(x)

(* C20: with two generation requests in flight, while one request is in the *)
(* 2-second delay the other can always take its next step with the first    *)
(* still waiting: its provider call can settle, its response can be sent,   *)
(* and until it has completed some step of it is possible.                  *)
C20_DelayNeverBlocks ==
    \A r \in ConcReqs : \A x \in ConcReqs \ {r} :
        InRetryDelay(reqs[r]) =>
            /\ reqs[x].pc # "done" =>
                  ENABLED (HandlerStep(x) /\ reqs'[r] = reqs[r])
            /\ (reqs[x].pc = "generate" /\ ~reqs[x].orch.waiting) =>
                  ENABLED (ProviderCallSettles(x) /\ reqs'[r] = reqs[r])
            /\ reqs[x].pc = "save" =>
                  ENABLED (SaveAndRespond(x) /\ reqs'[r] = reqs[r]
                             /\ reqs'[x].pc = "done" /\ reqs'[x].response.status = 200)

\* r1 is in the delay before a second attempt and r2 has been served
C20_Witness ==
    /\ InRetryDelay(reqs["r1"])
    /\ reqs["r2"].pc = "done"
    /\ reqs["r2"].response.status = 200
    /\ Succeeded(reqs["r2"].orch) # {}

------------------------------------------------------------------------------
\* the attempts _generateContent makes for an instance when every one fails
Schedule(svc) ==
    LET AttemptsOf(p) ==
          IF HasClient(svc, p)
            THEN [i \in 1..AttemptsGiven(p) |-> [provider |-> p, attempt |-> i - 1]]
            ELSE <<>>
    IN AttemptsOf("openai") \o AttemptsOf("gemini") \o AttemptsOf("groq")

\* the provider calls of a request, in order
CallSeq(o) == SelectSeq(o.trace, LAMBDA e : e.ev = "call")

\* the position of a request is a function of the instance and of the
\* outcomes of its own provider calls
OwnOutcomesDecide(q) ==
    LET o == q.orch
        calls == CallSeq(o)
        n == Len(calls)
        plan == Schedule(openaiService)
    IN /\ n <= Len(plan)
       /\ \A i \in 1..n :
             /\ calls[i].provider = plan[i].provider
             /\ calls[i].attempt = plan[i].attempt
             /\ i < n => ~calls[i].ok
       /\ o.status = "returned" <=> (n > 0 /\ calls[n].ok)
       /\ o.status = "returned" => o.returned = calls[n].value
       /\ o.status = "thrown" <=> (n = Len(plan) /\ (n > 0 => ~calls[n].ok))
       /\ o.status = "thrown" =>
             o.thrown = IF openaiService.groqClient
                          THEN AllFailedError(o.lastError) ELSE NotConfiguredError
       /\ o.status = "running" =>
             /\ o.stage = plan[n + 1].provider
             /\ o.attempt = plan[n + 1].attempt
       /\ q.pc = "done" =>
             q.response =
                LET out == ServiceMethod(q.body, o.returned) IN
                IF o.status = "thrown" THEN ErrorResponse(o.thrown)
                ELSE IF out.ok THEN JsonResponse(out.value)
                ELSE ErrorResponse(<<out.message>>)

(* C21: two requests served by the same service instance share no mutable   *)
(* state: in every step of every interleaving each request's attempts and   *)
(* outcome follow from the instance and the outcomes of its own provider    *)
(* calls, a step of one request leaves the other request as it is, and the  *)
(* instance, once built, and the settings never change.                     *)
C21_NoSharedMutableState ==
    [][ /\ \A r \in ConcReqs :
              reqs'[r].pc \in {"generate", "save", "done"} => OwnOutcomesDecide(reqs[r])'
        /\ \E r \in ConcReqs : \A x \in ConcReqs \ {r} : reqs'[x] = reqs[x]
        /\ openaiService.constructed => openaiService' = openaiService
        /\ settings' = settings ]_vars

\* r1 was served by Gemini's second attempt and r2 by OpenAI at once, both
\* by the same instance
C21_Witness ==
    /\ reqs["r1"].pc = "done" /\ reqs["r2"].pc = "done"
    /\ openaiService.openaiClient /\ openaiService.geminiClient
    /\ Len(CallSeq(reqs["r1"].orch)) = 3
    /\ reqs["r1"].response.status = 200
    /\ Len(CallSeq(reqs["r2"].orch)) = 1
    /\ reqs["r2"].response.status = 200

------------------------------------------------------------------------------
(* The generation routes with the body of the request spelled out           *)

\* schemas.js: Platform, Tone, Goal
Platform == {"instagram", "linkedin", "twitter", "facebook", "tiktok", "youtube"}
Tone == {"professional", "casual", "humorous", "inspirational", "educational", "promotional"}
Goal == {"engagement", "awareness", "conversion", "traffic", "education", "entertainment"}

\* z.string().min(3).max(500)
TopicMin == 3
TopicMax == 500

\* Mutant of SchemaAccepts: the upper limit of the topic is not tested
SchemaAcceptsNoMax(topicLen, platform, tone, goal) ==
    /\ topicLen >= TopicMin
    /\ platform \in Platform /\ tone \in Tone /\ goal \in Goal

\* TextPostRequest / ImagePostRequest / VideoScriptRequest .parseAsync resolves
SchemaAccepts(topicLen, platform, tone, goal) ==
    /\ topicLen >= TopicMin /\ topicLen <= TopicMax
    /\ platform \in Platform /\ tone \in Tone /\ goal \in Goal

\* platforms[platform] || platforms.instagram: the platform whose context is used
_getPlatformContext(platform) == IF platform \in Platform THEN platform ELSE "instagram"

\* the bodies sent: topics around both limits, known and unknown enum values
TopicLens == {0, 2, 3, 500, 501}

InputBodies ==
    {[kind |-> k, valid |-> SchemaAccepts(n, p, t, g),
      includeHashtags |-> TRUE, includeCTA |-> TRUE,
      topicLen |-> n, platform |-> p, tone |-> t, goal |-> g] :
        k \in {"text", "image", "video"}, n \in TopicLens,
        p \in {"twitter", "myspace"}, t \in {"casual", "angry"},
        g \in {"traffic", "fame"}}

\* a request arrives with one of these bodies
ReceiveInput(r) ==
    /\ Runnable(r)
    /\ reqs[r].pc = "idle"
    /\ \E b \in InputBodies :
         reqs' = [reqs EXCEPT ![r] = [@ EXCEPT !.pc = "validate", !.body = b]]
    /\ UNCHANGED <<calc, user_credits, settings, openaiService, supabaseClient, content_history, ugc_ads>>

\* provider calls that time out or answer document A
InputScope ==
    \A r \in Reqs :
        /\ reqs[r].orch.lastError \in {"", "timeout"}
        /\ \A i \in DOMAIN reqs[r].orch.trace :
              reqs[r].orch.trace[i].value = IF reqs[r].orch.trace[i].ok THEN DocA ELSE DocNull

NextInput ==
    \E r \in Reqs :
        \/ ReceiveInput(r)
        \/ ValidateReject(r)
        \/ StartGeneration(r) /\ InputScope'
        \/ GenerateWithOpenAI(r) /\ InputScope'
        \/ GenerateWithGemini(r) /\ InputScope'
        \/ GenerateWithGroq(r) /\ InputScope'
        \/ RetryDelay(r)
        \/ SaveAndRespond(r)

SpecInput == Init /\ [][NextInput]_vars

------------------------------------------------------------------------------
(* C22: a request whose topic is shorter than 3 or longer than 500          *)
(* characters, or whose platform, tone or goal is not an enum value, is     *)
(* rejected before generation starts: no provider call, delay or insert is  *)
(* made for it and it is answered with an error; a request that reaches     *)
(* generation carries enum values, so the platform context used is that of  *)
(* its own platform and never a default.                                    *)
C22_InvalidInputNeverGenerates ==
    \A r \in Reqs :
        LET q == reqs[r]
            b == q.body
            bad == \/ b.topicLen < 3 \/ b.topicLen > 500
                   \/ b.platform \notin Platform \/ b.tone \notin Tone \/ b.goal \notin Goal
        IN q.pc # "idle" =>
             /\ bad =>
                  /\ q.pc \in {"validate", "done"}
                  /\ q.orch = OrchStart
                  /\ ~openaiService.constructed
                  /\ content_history = <<>>
                  /\ q.pc = "done" =>
                        (q.response.status # 200 /\ ~q.response.body.success)
             /\ q.pc \in {"generate", "save"} \/ q.orch.trace # <<>> =>
                  /\ ~bad
                  /\ _getPlatformContext(b.platform) = b.platform

\* a topic of 501 characters was rejected; nothing was called
C22_Witness ==
    \E r \in Reqs :
        /\ reqs[r].pc = "done"
        /\ reqs[r].body.topicLen = 501
        /\ reqs[r].body.platform \in Platform
        /\ reqs[r].body.tone \in Tone /\ reqs[r].body.goal \in Goal
        /\ reqs[r].response.status = 500
        /\ reqs[r].orch.trace = <<>>

------------------------------------------------------------------------------
\* the credits-used constant of each content kind
CreditsUsed(kind) ==
    CASE kind = "text" -> 1
      [] kind = "image" -> 2
      [] kind = "video" -> 3
      [] kind = "ugc" -> 2

(* C23: every success response reports the credits-used constant of its     *)
(* kind (text 1, image 2, video 3, UGC ad 2) however many attempts the      *)
(* request needed, and no step of a generation request changes the stored   *)
(* credit balances.                                                         *)
C23_FixedCreditsNoDeduction ==
    [][ /\ user_credits' = user_credits
        /\ \A r \in Reqs :
              (reqs'[r].pc = "done" /\ reqs'[r].response.status = 200) =>
                  reqs'[r].response.body.creditsUsed = CreditsUsed(reqs'[r].body.kind) ]_vars

\* a video script served by the fifth provider call reports 3 credits and
\* the balances are those of the start
C23_Witness ==
    \E r \in Reqs :
        /\ reqs[r].pc = "done"
        /\ reqs[r].body.kind = "video"
        /\ reqs[r].response.status = 200
        /\ Cardinality(CallsOf(reqs[r].orch)) = 5
        /\ reqs[r].response.body.creditsUsed = 3
        /\ user_credits = DefaultCredits

------------------------------------------------------------------------------
(* authenticateUser on its own                                              *)

Bearer == <<"B", "e", "a", "r", "e", "r", " ">>

\* req.headers.authorization: undefined, or a string
NoHeader == <<"undefined">>
AuthHeaders ==
    { NoHeader,
      <<>>,
      <<"B", "a", "s", "i", "c", " ", "x">>,
      <<"b", "e", "a", "r", "e", "r", " ", "t", "1">>,
      <<"B", "e", "a", "r", "e", "r">>,
      Bearer,
      Bearer \o <<"t", "1">>,
      Bearer \o <<"t", "2">> }

\* what client.auth.getUser(token) does: it resolves with a user, with an
\* error, with neither, with data null, or it rejects
GetUserOutcomes ==
    { [kind |-> "user", user |-> "u1"], [kind |-> "user", user |-> "u2"],
      [kind |-> "error", user |-> "null"], [kind |-> "no_user", user |-> "null"],
      [kind |-> "no_data", user |-> "null"], [kind |-> "throws", user |-> "null"] }

\* req.user = null; return next()
Anonymous(a) == [a EXCEPT !.pc = "done", !.user = "null", !.nextCalls = @ + 1]

\* lines 9-27: up to the await of getUser
AuthSync(a) ==
    IF ~a.configured THEN Anonymous(a)
    ELSE IF a.header = NoHeader \/ a.header = <<>> \/ ~StartsWith(a.header, Bearer)
      THEN Anonymous(a)
      ELSE [a EXCEPT !.pc = "verify", !.token = SubstringFrom(a.header, 7)]

\* Mutant of AfterGetUser: a token that is not verified is answered 401
AfterGetUserRejecting(a, out) ==
    IF out.kind = "user"
      THEN [a EXCEPT !.pc = "done", !.outcome = out.kind, !.user = out.user,
                     !.nextCalls = @ + 1]
      ELSE [a EXCEPT !.pc = "done", !.outcome = out.kind, !.user = "null",
                     !.responded = TRUE]

\* lines 30-47: getUser settled; a rejection and the TypeError of reading
\* data.user on null are caught, the catch block calls next()
AfterGetUser(a, out) ==
    CASE out.kind = "user" ->
            [a EXCEPT !.pc = "done", !.outcome = out.kind, !.user = out.user,
                      !.nextCalls = @ + 1]
      [] out.kind \in {"error", "no_user"} -> Anonymous([a EXCEPT !.outcome = out.kind])
      [] out.kind \in {"no_data", "throws"} -> Anonymous([a EXCEPT !.outcome = out.kind])

InitAuth ==
    /\ ServerIdle
    /\ calc \in [pc : {"start"}, configured : BOOLEAN, header : AuthHeaders,
                 token : {<<>>}, outcome : {"none"}, user : {"unset"}, nextCalls : {0},
                 responded : {FALSE}]

\* the middleware runs up to its first await or to next()
AuthBegin ==
    /\ calc.pc = "start"
    /\ calc' = AuthSync(calc)
    /\ UNCHANGED <<user_credits, settings, openaiService, supabaseClient, content_history,
                   ugc_ads, reqs>>

\* the awaited getUser settles
AuthVerify ==
    /\ calc.pc = "verify"
    /\ \E out \in GetUserOutcomes : calc' = AfterGetUser(calc, out)
    /\ UNCHANGED <<user_credits, settings, openaiService, supabaseClient, content_history,
                   ugc_ads, reqs>>

\* next(): the route handler receives the request with the req.user set
RouteAfterAuth(r) ==
    /\ calc.pc = "done"
    /\ calc.nextCalls = 1
    /\ reqs[r].pc = "idle"
    /\ \E b \in Bodies :
         reqs' = [reqs EXCEPT ![r] = [@ EXCEPT !.pc = "validate", !.body = b,
                                               !.user = calc.user]]
    /\ UNCHANGED <<calc, user_credits, settings, openaiService, supabaseClient,
                   content_history, ugc_ads>>

NextAuth == AuthBegin \/ AuthVerify \/ \E r \in Reqs : RouteAfterAuth(r)

SpecAuth == InitAuth /\ [][NextAuth]_vars

------------------------------------------------------------------------------
(* C24: authenticateUser never rejects: whatever the Supabase               *)
(* configuration, the Authorization header and the outcome of the token     *)
(* verification, it calls next() exactly once and sends no response;        *)
(* req.user is the user Supabase returned when it is configured, the        *)
(* header is a Bearer token and the verification gave a user, and null in   *)
(* every other case.                                                        *)
C24_AuthNeverRejects ==
    /\ calc.pc \in {"start", "verify"} => (calc.nextCalls = 0 /\ ~calc.responded)
    /\ calc.pc = "verify" =>
          (calc.configured /\ StartsWith(calc.header, Bearer)
             /\ calc.header = Bearer \o calc.token)
    /\ calc.pc = "done" =>
          /\ calc.nextCalls = 1
          /\ ~calc.responded
          /\ calc.user # "unset"
          /\ calc.user # "null" <=>
                (calc.configured /\ calc.header # NoHeader /\ StartsWith(calc.header, Bearer)
                   /\ calc.outcome = "user")
          /\ calc.user # "null" => calc.user \in {"u1", "u2"}
          /\ \A r \in Reqs : reqs[r].pc # "idle" => reqs[r].user = calc.user

\* a Bearer token whose verification rejected: the request went on anonymous
C24_Witness ==
    /\ calc.pc = "done"
    /\ calc.configured
    /\ calc.header = Bearer \o <<"t", "1">>
    /\ calc.outcome = "throws"
    /\ calc.user = "null"
    /\ calc.nextCalls = 1
    /\ \E r \in Reqs : reqs[r].pc = "validate"

------------------------------------------------------------------------------
(* C25: a request to a generation endpoint whose body fails schema          *)
(* validation is answered with status 400 and error "Validation error".     *)
C25_ValidationErrorIs400 ==
    \A r \in Reqs :
        LET q == reqs[r] IN
        (q.pc = "done" /\ ~q.body.valid) =>
            /\ q.response.status = 400
            /\ q.response.body.error = <<"Validation error">>

------------------------------------------------------------------------------
(* POST /credits/deduct and SupabaseService.deductCredit, two requests for  *)
(* the one (hard-coded) user                                                *)

DeductReqs == {"d1", "d2"}

\* the row of the user before the requests: some credits, one credit, none
InitialCredits == [text |-> 2, image |-> 1, video |-> 0]

CreditTypes == {"text", "image", "video"}

\* req.body: creditType (possibly not a credit type) and amount
DeductBodies == [creditType : CreditTypes \cup {"gold"}, amount : {1, 2}]

IdleDeduct ==
    [pc |-> "idle", creditType |-> "text", amount |-> 1, newValue |-> 0,
     success |-> FALSE, erred |-> FALSE, response |-> NoResponse]

\* `${amount} ${creditType} credit(s) deducted successfully`
DeductedMessage(amount, creditType) == <<amount, creditType, " credit(s) deducted successfully">>

InitCredits ==
    /\ settings = [openaiApiKey |-> TRUE, googleApiKey |-> TRUE, groqApiKey |-> TRUE]
    /\ openaiService = NoService
    /\ supabaseClient \in BOOLEAN
    /\ content_history = <<>>
    /\ ugc_ads = <<>>
    /\ user_credits = InitialCredits
    /\ reqs = [d \in DeductReqs |-> IdleDeduct]
    /\ calc = NoCalc

\* part_005 lines 36-50 and deductCredit lines 66-76: the type is checked,
\* then deductCredit returns true at once without a client, or awaits the
\* select of the balance
DeductReceive(d) ==
    /\ Runnable(d)
    /\ reqs[d].pc = "idle"
    /\ \E b \in DeductBodies :
         reqs' = [reqs EXCEPT ![d] =
            IF b.creditType \notin CreditTypes
              THEN [@ EXCEPT !.pc = "done", !.creditType = b.creditType, !.amount = b.amount,
                             !.response = [status |-> 400,
                                           body |-> [success |-> FALSE,
                                                     message |-> <<"Invalid credit type">>]]]
              ELSE IF ~supabaseClient
                THEN [@ EXCEPT !.pc = "credits", !.creditType = b.creditType,
                               !.amount = b.amount, !.success = TRUE]
                ELSE [@ EXCEPT !.pc = "read", !.creditType = b.creditType,
                               !.amount = b.amount]]
    /\ UNCHANGED <<calc, user_credits, settings, openaiService, supabaseClient,
                   content_history, ugc_ads>>

\* deductCredit lines 72-92: the select settled with the balance or an error
DeductRead(d) ==
    /\ Runnable(d)
    /\ reqs[d].pc = "read"
    /\ \E storeError \in BOOLEAN :
         reqs' = [reqs EXCEPT ![d] =
            IF storeError
              THEN [@ EXCEPT !.pc = "credits", !.success = TRUE, !.erred = TRUE]
              ELSE IF user_credits[@.creditType] > 0
                THEN [@ EXCEPT !.pc = "update", !.newValue = user_credits[reqs[d].creditType] - 1]
                ELSE [@ EXCEPT !.pc = "done", !.success = FALSE,
                               !.response = [status |-> 402,
                                             body |-> [success |-> FALSE, creditsRemaining |-> 0,
                                                       message |-> <<"Insufficient credits">>]]]]
    /\ UNCHANGED <<calc, user_credits, settings, openaiService, supabaseClient,
                   content_history, ugc_ads>>

\* deductCredit lines 81-86: the update settled (its error, if any, is not
\* read) and deductCredit returns true
DeductUpdate(d) ==
    /\ Runnable(d)
    /\ reqs[d].pc = "update"
    /\ \E storeError \in BOOLEAN :
         /\ user_credits' = IF storeError THEN user_credits
                            ELSE [user_credits EXCEPT ![reqs[d].creditType] = reqs[d].newValue]
         /\ reqs' = [reqs EXCEPT ![d] = [@ EXCEPT !.pc = "credits", !.success = TRUE,
                                                 !.erred = @ \/ storeError]]
    /\ UNCHANGED <<calc, settings, openaiService, supabaseClient, content_history, ugc_ads>>

\* getUserCredits: the row, or the default balances without a client or on error
GetUserCredits(storeError) ==
    IF supabaseClient /\ ~storeError THEN user_credits ELSE DefaultCredits

\* part_005 lines 52-58: getUserCredits settled, the success response
DeductRespond(d) ==
    /\ Runnable(d)
    /\ reqs[d].pc = "credits"
    /\ \E storeError \in BOOLEAN :
         reqs' = [reqs EXCEPT ![d] =
            [@ EXCEPT !.pc = "done", !.erred = @ \/ (supabaseClient /\ storeError),
                      !.response =
                         [status |-> 200,
                          body |-> [success |-> TRUE,
                                    creditsRemaining |->
                                        GetUserCredits(storeError)[reqs[d].creditType],
                                    message |-> DeductedMessage(reqs[d].amount,
                                                                reqs[d].creditType)]]]]
    /\ UNCHANGED <<calc, user_credits, settings, openaiService, supabaseClient,
                   content_history, ugc_ads>>

NextCredits ==
    \E d \in DeductReqs :
        \/ DeductReceive(d)
        \/ DeductRead(d)
        \/ DeductUpdate(d)
        \/ DeductRespond(d)

SpecCredits == InitCredits /\ [][NextCredits]_vars

------------------------------------------------------------------------------
(* C26: when POST /credits/deduct with a valid creditType and amount n      *)
(* answers success with the message that n credit(s) were deducted, the     *)
(* stored balance of that type has decreased by exactly n (stated for a     *)
(* request that ran alone).                                                 *)
C26_DeductedAmountMatchesMessage ==
    \A d \in DeductReqs :
        LET q == reqs[d] IN
        (q.pc = "done" /\ q.response.status = 200
           /\ q.response.body.message = DeductedMessage(q.amount, q.creditType)
           /\ \A x \in DeductReqs \ {d} : reqs[x].pc = "idle") =>
              user_credits[q.creditType] = InitialCredits[q.creditType] - q.amount

------------------------------------------------------------------------------
(* C28: with Supabase configured and no store errors, once the concurrent   *)
(* deductCredit calls have returned, the stored balance of each credit type *)
(* is the initial balance minus the number of calls for that type that      *)
(* returned true, and no balance is ever negative.                          *)
C28_ConcurrentDeductionsAddUp ==
    /\ \A t \in CreditTypes : user_credits[t] >= 0
    /\ (supabaseClient /\ \A d \in DeductReqs : (reqs[d].pc = "done" /\ ~reqs[d].erred)) =>
          \A t \in CreditTypes :
              user_credits[t] =
                 InitialCredits[t]
                   - Cardinality({d \in DeductReqs : reqs[d].creditType = t /\ reqs[d].success})

------------------------------------------------------------------------------
(* The generation routes when every awaited provider call settles and       *)
(* every timer fires                                                        *)
SpecLive ==
    /\ Init
    /\ [][Next]_vars
    /\ \A r \in Reqs :
          /\ WF_vars(GenerateWithOpenAI(r))
          /\ WF_vars(GenerateWithGemini(r))
          /\ WF_vars(GenerateWithGroq(r))
          /\ WF_vars(RetryDelay(r))

(* C27: provided every provider call returns or fails, every call of        *)
(* _generateContent ends by returning or throwing, and whatever the         *)
(* configuration and the failures it makes at most 5 provider calls (1 to   *)
(* OpenAI, 2 to Gemini, 2 to Groq) and waits at most 2 delays.              *)
C27_BoundedTermination ==
    /\ [](\A r \in Reqs :
             LET o == reqs[r].orch IN
             Orchestrated(reqs[r]) =>
                /\ Cardinality(CallsOf(o)) <= 5
                /\ Cardinality(CallsTo(o, "openai")) <= 1
                /\ Cardinality(CallsTo(o, "gemini")) <= 2
                /\ Cardinality(CallsTo(o, "groq")) <= 2
                /\ Cardinality(DelaysOf(o)) <= 2)
    /\ \A r \in Reqs :
          (reqs[r].pc = "generate") ~>
             (reqs[r].pc \in {"save", "done"}
                /\ reqs[r].orch.status \in {"returned", "thrown"})

\* every attempt of the three adapters failed: 5 calls, 2 delays, a throw
C27_Witness ==
    \E r \in Reqs :
        LET o == reqs[r].orch IN
        /\ Orchestrated(reqs[r])
        /\ Cardinality(CallsOf(o)) = 5
        /\ Cardinality(DelaysOf(o)) = 2
        /\ o.status = "thrown"
        /\ reqs[r].pc = "done"

------------------------------------------------------------------------------
(* C29: on the text, image and video routes a content_history row is        *)
(* inserted only by the step that follows a successful generation, for a    *)
(* valid request, and the response of that step is the generated result     *)
(* with success = true whether the insert worked or failed.                 *)
C29_SaveOnlyAfterSuccess ==
    [][ /\ content_history' # content_history =>
              \E r \in Reqs :
                  /\ reqs[r].pc = "save" /\ reqs'[r].pc = "done"
                  /\ reqs[r].body.valid
                  /\ reqs[r].body.kind \in OrchKinds
                  /\ reqs[r].orch.status = "returned"
                  /\ Succeeded(reqs[r].orch) # {}
                  /\ supabaseClient
                  /\ content_history' = Append(content_history, ContentRow(reqs[r]))
        /\ \A r \in Reqs :
              (reqs[r].pc = "save" /\ reqs'[r].pc = "done") =>
                  /\ reqs'[r].response = JsonResponse(reqs[r].result)
                  /\ reqs'[r].response.body.success
                  /\ reqs'[r].response.body = ServiceMethod(reqs[r].body,
                                                            reqs[r].orch.returned).value ]_vars

\* Supabase is configured, the insert failed, and the request was answered
\* with the generated result
C29_Witness ==
    \E r \in Reqs :
        /\ supabaseClient
        /\ reqs[r].pc = "done"
        /\ reqs[r].body.kind \in OrchKinds
        /\ reqs[r].response.status = 200
        /\ reqs[r].response.body.success
        /\ content_history = <<>>


------------------------------------------------------------------------------
(* The history and dashboard read endpoints: src/routes/dashboard.js and    *)
(* GET /content/history of the content router.  A stored row is modelled by *)
(* the columns the handlers read: id, user_id, content_type, platform and   *)
(* created_at; a table is kept in insertion order, created_at increasing.   *)

MaxRows == 2
RecentLimit == 10
StatsRecent == 5
TopPlatforms == 4
MinutesPerPost == 15
HistoryLimit == 50

RowUsers == {"null", "u1", "u2"}
RowPlatforms == {"instagram", "linkedin"}
RowTypes == {"text", "image"}

\* the content_history tables of at most MaxRows rows; row i was created at 2i
ContentTables ==
    UNION { { [i \in 1..n |-> [id |-> i, user_id |-> f[i].user_id,
                               content_type |-> f[i].content_type,
                               platform |-> f[i].platform, created_at |-> 2 * i]] :
              f \in [1..n -> [user_id : RowUsers, content_type : RowTypes,
                              platform : RowPlatforms]] } : n \in 0..MaxRows }

\* the ugc_ads tables of at most one row, created before, between or after
\* the rows of content_history
UgcTables ==
    {<<>>} \cup { <<[id |-> 1, user_id |-> u, created_at |-> t]>> :
                  u \in RowUsers, t \in {1, 3, 5} }

Endpoints == {"dashboard_stats", "dashboard_recent", "dashboard_history",
              "content_history"}

\* .slice(0, n)
Take(s, n) == SubSeq(s, 1, IF Len(s) < n THEN Len(s) ELSE n)

RECURSIVE ReverseSeq(_)
ReverseSeq(s) == IF s = <<>> THEN <<>> ELSE Append(ReverseSeq(Tail(s)), Head(s))

\* Array.prototype.sort with a comparator on a numeric key, descending, over a
\* sequence of <<key, element>> pairs; the sort is stable, so equal keys keep
\* their order
RECURSIVE InsertDesc(_, _)
InsertDesc(x, s) ==
    IF s = <<>> THEN <<x>>
    ELSE IF x[1] > Head(s)[1] THEN <<x>> \o s
    ELSE <<Head(s)>> \o InsertDesc(x, Tail(s))

RECURSIVE SortPairsDesc(_)
SortPairsDesc(s) ==
    IF s = <<>> THEN <<>>
    ELSE InsertDesc(s[Len(s)], SortPairsDesc(SubSeq(s, 1, Len(s) - 1)))

SortDesc(pairs) == LET sorted == SortPairsDesc(pairs)
                   IN  [i \in 1..Len(sorted) |-> sorted[i][2]]

\* .from(table).select('*').order('created_at', {ascending: false}), with
\* .eq('user_id', userId) when the handler added it
QueryOrdered(table, filtered, userId) ==
    LET all == ReverseSeq(table)
    IN  IF filtered THEN SelectSeq(all, LAMBDA row : row.user_id = userId) ELSE all

\* the handlers of dashboard.js add the filter `if (userId)`
DashboardQuery(table, userId) == QueryOrdered(table, userId # "null", userId)

\* GET /content/history builds its query without req.user
ContentHistoryQuery(table, userId) == Take(QueryOrdered(table, FALSE, userId), HistoryLimit)

CountType(rows, type) == Len(SelectSeq(rows, LAMBDA row : row.content_type = type))

\* `${hours}hrs` or `${totalMinutes}min`
TimeSaved(totalPosts) ==
    LET totalMinutes == totalPosts * MinutesPerPost
        hours == totalMinutes \div 60
    IN  IF hours > 0 THEN <<hours, "hrs">> ELSE <<totalMinutes, "min">>

\* platform.charAt(0).toUpperCase() + platform.slice(1)
Capitalize(platform) ==
    CASE platform = "instagram" -> "Instagram"
      [] platform = "linkedin" -> "Linkedin"
      [] OTHER -> platform

\* Object.entries(platformCounts): the platforms in the order of their first row
RECURSIVE PlatformOrder(_)
PlatformOrder(rows) ==
    IF rows = <<>> THEN <<>>
    ELSE LET before == PlatformOrder(SubSeq(rows, 1, Len(rows) - 1))
             p == rows[Len(rows)].platform
         IN  IF \E i \in 1..Len(before) : before[i] = p THEN before ELSE Append(before, p)

\* Math.round((count / totalPosts) * 100)
Percentage(count, totalPosts) ==
    IF totalPosts > 0 THEN (200 * count + totalPosts) \div (2 * totalPosts) ELSE 0

PlatformStats(rows) ==
    LET order == PlatformOrder(rows)
        entries == [i \in 1..Len(order) |->
                      LET count == Len(SelectSeq(rows, LAMBDA row : row.platform = order[i]))
                      IN  [platform |-> Capitalize(order[i]), count |-> count,
                           percentage |-> Percentage(count, Len(rows))]]
    IN  Take(SortDesc([i \in 1..Len(entries) |-> <<entries[i].count, entries[i]>>]), TopPlatforms)

EmptyStats ==
    [stats |-> [postsGenerated |-> 0, imagesCreated |-> 0, videosMade |-> 0,
                timeSaved |-> <<0, "hrs">>, postsChange |-> "+0%",
                imagesChange |-> "+0%", videosChange |-> "+0%", timeChange |-> "+0%"],
     recentContent |-> <<>>, platformStats |-> <<>>]

\* the body of GET /dashboard/stats for the rows its query returned
StatsBody(rows) ==
    [stats |-> [postsGenerated |-> CountType(rows, "text"),
                imagesCreated |-> CountType(rows, "image"),
                videosMade |-> CountType(rows, "video"),
                timeSaved |-> TimeSaved(Len(rows)), postsChange |-> "+12%",
                imagesChange |-> "+8%", videosChange |-> "+15%", timeChange |-> "+10%"],
     recentContent |-> [i \in 1..Len(Take(rows, StatsRecent)) |->
                          [id |-> rows[i].id, platform |-> rows[i].platform,
                           contentType |-> rows[i].content_type]],
     platformStats |-> PlatformStats(rows)]

\* the items of GET /dashboard/recent and of GET /content/history
ItemsBody(rows) ==
    [items |-> [i \in 1..Len(rows) |->
                  [id |-> rows[i].id, contentType |-> rows[i].content_type,
                   platform |-> rows[i].platform, createdAt |-> rows[i].created_at]]]

\* the array of GET /dashboard/history: content items, then UGC ads, sorted
\* by createdAt descending
HistoryBody(contentRows, ugcRows) ==
    LET historyItems ==
            [i \in 1..Len(contentRows) |->
               [id |-> contentRows[i].id, type |-> contentRows[i].content_type,
                platform |-> contentRows[i].platform,
                createdAt |-> contentRows[i].created_at]]
            \o [i \in 1..Len(ugcRows) |->
                  [id |-> ugcRows[i].id, type |-> "ugc_ad", platform |-> "none",
                   createdAt |-> ugcRows[i].created_at]]
    IN  SortDesc([i \in 1..Len(historyItems) |->
                    <<historyItems[i].createdAt, historyItems[i]>>])

\* What a handler answers.  content and ugc are the tables, errC and errU say
\* whether the query on each came back with an error.
DashboardStats(configured, userId, content, errC) ==
    IF ~configured \/ errC THEN EmptyStats
    ELSE StatsBody(DashboardQuery(content, userId))

DashboardRecent(configured, userId, content, errC) ==
    IF ~configured \/ errC THEN [items |-> <<>>]
    ELSE ItemsBody(Take(DashboardQuery(content, userId), RecentLimit))

DashboardHistory(configured, userId, content, ugc, errC, errU) ==
    IF ~configured THEN <<>>
    ELSE HistoryBody(IF errC THEN <<>> ELSE DashboardQuery(content, userId),
                     IF errU THEN <<>> ELSE DashboardQuery(ugc, userId))

ContentHistory(configured, userId, content, errC) ==
    IF ~configured \/ errC THEN [items |-> <<>>]
    ELSE ItemsBody(ContentHistoryQuery(content, userId))

EndpointBody(endpoint, configured, userId, content, ugc, errC, errU) ==
    CASE endpoint = "dashboard_stats" -> DashboardStats(configured, userId, content, errC)
      [] endpoint = "dashboard_recent" -> DashboardRecent(configured, userId, content, errC)
      [] endpoint = "dashboard_history" ->
            DashboardHistory(configured, userId, content, ugc, errC, errU)
      [] endpoint = "content_history" -> ContentHistory(configured, userId, content, errC)

IdleRead == [pc |-> "idle", endpoint |-> "none", user |-> "null", body |-> <<>>]

InitDash ==
    /\ settings = [OPENAI_API_KEY |-> "", GEMINI_API_KEY |-> "", GROQ_API_KEY |-> ""]
    /\ openaiService = [built |-> FALSE]
    /\ supabaseClient \in BOOLEAN
    /\ content_history \in ContentTables
    /\ ugc_ads \in UgcTables
    /\ user_credits = DefaultCredits
    /\ reqs = [r \in Reqs |-> IdleRead]
    /\ calc = NoCalc

\* a GET arrives; authenticateUser has set req.user to a user id or to null
ReadReceive(r) ==
    /\ reqs[r].pc = "idle"
    /\ \E e \in Endpoints, u \in RowUsers :
         reqs' = [reqs EXCEPT ![r] = [@ EXCEPT !.pc = "query", !.endpoint = e, !.user = u]]
    /\ UNCHANGED <<calc, user_credits, settings, openaiService, supabaseClient,
                   content_history, ugc_ads>>

\* the handler runs its queries and answers with res.json
ReadRespond(r) ==
    /\ reqs[r].pc = "query"
    /\ \E errC \in BOOLEAN, errU \in BOOLEAN :
         reqs' = [reqs EXCEPT ![r] =
                    [@ EXCEPT !.pc = "done",
                              !.body = EndpointBody(reqs[r].endpoint, supabaseClient,
                                                    reqs[r].user, content_history,
                                                    ugc_ads, errC, errU)]]
    /\ UNCHANGED <<calc, user_credits, settings, openaiService, supabaseClient,
                   content_history, ugc_ads>>

NextDash == \E r \in Reqs : ReadReceive(r) \/ ReadRespond(r)

SpecDash == InitDash /\ [][NextDash]_vars

\* the rows of a table that belong to user u
OwnRows(table, u) == SelectSeq(table, LAMBDA row : row.user_id = u)

\* the answers an endpoint gives when the tables hold the rows of u only
OwnAnswers(endpoint, u) ==
    { EndpointBody(endpoint, supabaseClient, "null", OwnRows(content_history, u),
                   OwnRows(ugc_ads, u), errC, errU) : errC \in BOOLEAN, errU \in BOOLEAN }

\* C30: for a request authenticated as user u, GET /dashboard/stats,
\* GET /dashboard/recent, GET /dashboard/history and GET /content/history
\* answer only with data derived from the rows whose user_id is u: the answer
\* is one the endpoint gives when the rows of every other user are absent.
C30_UserIsolation ==
    \A r \in Reqs :
        (reqs[r].pc = "done" /\ reqs[r].user # "null") =>
            reqs[r].body \in OwnAnswers(reqs[r].endpoint, reqs[r].user)

====
